---------------------------- MODULE Spec2Model ----------------------------
(***************************************************************************)
(* A model of the memory-management core of the OpsAgent demo backend      *)
(* (src/demo/backend): the dedup merge of the profile store, the budget    *)
(* pruner, the skill matcher and the turn pipeline of OpsAgent.chat.       *)
(*                                                                         *)
(* Python strings are sequences of one-character strings, so that lower(), *)
(* strip(), len() and the `in` substring test are computed, not assumed.   *)
(***************************************************************************)
EXTENDS Integers, Sequences, FiniteSets, TLC

VARIABLES
    m_existing,   \* _dedup_list: the argument `existing`
    m_incoming,   \* _dedup_list: the argument `new_items`
    m_once,       \* the result of _dedup_list(existing, new_items)
    m_twice,      \* the result of merging new_items into m_once again
    m_pc,         \* position of the merge driver
    profiles,     \* UserProfileStore: user_id -> the stored profile file, or NoFile
    p_call,       \* the last update_profile call: its user and its updates
    pr_messages,  \* prune_messages_to_budget: the argument `messages`
    pr_token_budget, \* the argument `token_budget`: <<>> for None, <<n>> for n
    pr_result,    \* the pair returned: pruned_messages and stats
    pr_pc,        \* position of the pruner's caller
    sk_index,     \* SkillsLoader.index: the skill summaries, in registry order
    sk_query,     \* match_skills: the argument `query`
    sk_matched,   \* the list match_skills returned
    sk_pc,        \* position of the matcher's caller
    sk_files,     \* skill id -> what is at the skill's file_path
    sk_expanded,  \* the result of get_expanded_context
    sessions,     \* SessionStore: <<user_id, session_id>> -> the session file, or NoFile
    session_index,\* SessionStore: user_id -> the list in _index.json
    memories,     \* VectorMemoryStore: the rows of the collection, in insertion order
    tasks,        \* the /chat requests: each coroutine's position and locals
    st_call,      \* the last call observed: its operation, arguments and result
    running,      \* the coroutine the event loop is running ({t}), or NoTask
    rt_hits,      \* retrieve_memories: the hits of the search, in the order returned
    rt_top_k,     \* the argument `top_k`
    rt_result,    \* the list returned
    rt_pc         \* position of the caller of retrieve_memories

mergeVars   == <<m_existing, m_incoming, m_once, m_twice, m_pc>>
profileVars == <<profiles, p_call>>
pruneVars   == <<pr_messages, pr_token_budget, pr_result, pr_pc>>
skillVars   == <<sk_index, sk_query, sk_matched, sk_pc, sk_files, sk_expanded>>
storeVars   == <<sessions, session_index, memories, st_call>>
loopVars    == <<tasks, running>>
retrieveVars == <<rt_hits, rt_top_k, rt_result, rt_pc>>
vars        == <<mergeVars, profileVars, pruneVars, skillVars, storeVars, loopVars,
                 retrieveVars>>

(***************************************************************************)
(* Bounds of the model.                                                    *)
(***************************************************************************)
MaxList     == 2    \* longest list drawn as an argument of _dedup_list
MaxIncoming == 2    \* longest list an update_profile payload carries
MaxEntries  == 3    \* longest constraints/facts list a stored profile grows to
MaxMsgs     == 3    \* longest message sequence handed to the pruner
MaxBudget   == 4    \* largest small token budget handed to the pruner
MaxSkills   == 4    \* most skills in the index
MaxTasks    == 2    \* most /chat requests the server receives
MaxStoreMsgs == 3   \* most messages in the session store, over all sessions
MaxRows == 2        \* most rows in the memory collection
MaxHits == 3        \* most hits of a search
MaxTopK == 2        \* largest top_k asked for

(***************************************************************************)
(* Python values.                                                          *)
(***************************************************************************)
None   == "<None>"
NoFile == [exists |-> FALSE]
Idle   == "<idle>"

Min(S) == CHOOSE x \in S : \A y \in S : x <= y

UpperCase == <<"A", "B", "C", "D", "E", "F", "G", "H", "I", "J", "K", "L", "M",
               "N", "O", "P", "Q", "R", "S", "T", "U", "V", "W", "X", "Y", "Z">>
LowerCase == <<"a", "b", "c", "d", "e", "f", "g", "h", "i", "j", "k", "l", "m",
               "n", "o", "p", "q", "r", "s", "t", "u", "v", "w", "x", "y", "z">>

\* str.lower() on one character
LowerChar(c) ==
    IF \E i \in 1..26 : UpperCase[i] = c
    THEN LowerCase[CHOOSE i \in 1..26 : UpperCase[i] = c]
    ELSE c

\* the characters of the model's strings, and lower() tabulated over them
Chars == {UpperCase[i] : i \in 1..26} \cup {LowerCase[i] : i \in 1..26} \cup {" "}
LowerTable == [c \in Chars |-> LowerChar(c)]

\* str.lower()
Lower(s) == [i \in 1..Len(s) |-> LowerTable[s[i]]]

RECURSIVE LStrip(_)
\* str.lstrip(): leading blanks removed
LStrip(s) == IF s # <<>> /\ Head(s) = " " THEN LStrip(Tail(s)) ELSE s

RECURSIVE RStrip(_)
\* str.rstrip(): trailing blanks removed
RStrip(s) == IF s # <<>> /\ s[Len(s)] = " " THEN RStrip(SubSeq(s, 1, Len(s) - 1)) ELSE s

\* str.strip(): leading and trailing blanks removed
Strip(s) == RStrip(LStrip(s))

\* the `a in b` test on strings: a is a contiguous part of b
IsSubstr(a, b) ==
    \E i \in 0..(Len(b) - Len(a)) : SubSeq(b, i + 1, i + Len(a)) = a

\* new.lower().strip()
Norm(s) == Strip(Lower(s))

(***************************************************************************)
(* UserProfileStore._dedup_list (user_profile.py 31-54).                   *)
(***************************************************************************)
RECURSIVE ScanMutFirstOnly(_, _, _)
\* a scan that forgets the `norm_new in norm_old` test: a shorter incoming
\* item is appended although an entry already contains it
ScanMutFirstOnly(result, new, i) ==
    IF i > Len(result) THEN Append(result, new)
    ELSE LET norm_new == Norm(new)
             norm_old == Norm(result[i])
         IN  IF norm_new = norm_old THEN result
             ELSE IF IsSubstr(norm_old, norm_new) THEN [result EXCEPT ![i] = new]
             ELSE ScanMutFirstOnly(result, new, i + 1)

RECURSIVE ScanMutNoNorm(_, _, _)
\* a scan that compares the raw strings, without lower().strip()
ScanMutNoNorm(result, new, i) ==
    IF i > Len(result) THEN Append(result, new)
    ELSE IF new = result[i] THEN result
         ELSE IF IsSubstr(new, result[i]) THEN result
         ELSE IF IsSubstr(result[i], new) THEN [result EXCEPT ![i] = new]
         ELSE ScanMutNoNorm(result, new, i + 1)

RECURSIVE ScanMutKeepShorter(_, _, _)
\* a scan that replaces the entry on either overlap, so that a shorter
\* incoming item takes the place of the longer entry that contains it
ScanMutKeepShorter(result, new, i) ==
    IF i > Len(result) THEN Append(result, new)
    ELSE LET norm_new == Norm(new)
             norm_old == Norm(result[i])
         IN  IF norm_new = norm_old THEN result
             ELSE IF IsSubstr(norm_new, norm_old) THEN [result EXCEPT ![i] = new]
             ELSE IF IsSubstr(norm_old, norm_new) THEN [result EXCEPT ![i] = new]
             ELSE ScanMutKeepShorter(result, new, i + 1)

RECURSIVE Scan(_, _, _)
\* the inner loop `for i, old in enumerate(result)` from entry i on, with
\* the `if not is_dup: result.append(new)` that follows it
Scan(result, new, i) ==
    IF i > Len(result) THEN Append(result, new)
    ELSE LET norm_new == Norm(new)
             norm_old == Norm(result[i])
         IN  IF norm_new = norm_old THEN result
             ELSE IF IsSubstr(norm_new, norm_old) THEN result
             ELSE IF IsSubstr(norm_old, norm_new) THEN [result EXCEPT ![i] = new]
             ELSE Scan(result, new, i + 1)

RECURSIVE _dedup_list(_, _)
\* the outer loop `for new in new_items`, result starting as list(existing)
_dedup_list(existing, new_items) ==
    IF new_items = <<>> THEN existing
    ELSE _dedup_list(Scan(existing, Head(new_items), 1), Tail(new_items))

(***************************************************************************)
(* The strings the merge and the profile store are exercised with.         *)
(***************************************************************************)
UsesKubernetes ==
    <<"u", "s", "e", "s", " ", "K", "u", "b", "e", "r", "n", "e", "t", "e", "s">>
UsesKubernetesOnGKE ==
    <<"u", "s", "e", "s", " ", "K", "u", "b", "e", "r", "n", "e", "t", "e", "s",
      " ", "o", "n", " ", "G", "K", "E">>

\* "a", "b", "ab", "A " (equal to "a" once normalised), "ba", ""
MergeItems == { <<"a">>, <<"b">>, <<"a", "b">>, <<"A", " ">>, <<"b", "a">>, <<>> }

\* all lists of at most n items of S
ListsUpTo(S, n) == UNION { [1..k -> S] : k \in 0..n }

(***************************************************************************)
(* SpecMerge: _dedup_list as a pure function, applied once and then again  *)
(* with the same incoming list, over all argument lists within the bounds. *)
(***************************************************************************)
MergeIdle == /\ m_existing = <<>>
             /\ m_incoming = <<>>
             /\ m_once = <<>>
             /\ m_twice = <<>>
             /\ m_pc = Idle

InitMerge ==
    /\ m_existing \in ListsUpTo(MergeItems, MaxList)
    /\ m_incoming \in ListsUpTo(MergeItems, MaxList)
    /\ m_once = <<>>
    /\ m_twice = <<>>
    /\ m_pc = "start"

MergeOnce ==
    /\ m_pc = "start"
    /\ m_once' = _dedup_list(m_existing, m_incoming)
    /\ m_pc' = "once"
    /\ UNCHANGED <<m_existing, m_incoming, m_twice>>

MergeTwice ==
    /\ m_pc = "once"
    /\ m_twice' = _dedup_list(m_once, m_incoming)
    /\ m_pc' = "twice"
    /\ UNCHANGED <<m_existing, m_incoming, m_once>>

(***************************************************************************)
(* UserProfileStore (user_profile.py).  A profile file holds user_id,      *)
(* name, preferences, constraints and facts; created_at and updated_at are *)
(* wall-clock stamps no operation reads, and are left out.                 *)
(***************************************************************************)
Users == {"u1", "u2"}

EmptyDict == <<>>

_default_profile(user_id) ==
    [exists |-> TRUE, user_id |-> user_id, name |-> None,
     preferences |-> EmptyDict, constraints |-> <<>>, facts |-> <<>>]

\* get_profile: the stored file, or the defaults (which are not saved)
get_profile(user_id) ==
    IF profiles[user_id].exists THEN profiles[user_id]
    ELSE _default_profile(user_id)

\* dict.update(value): the keys of value win
DictUpdate(d, value) == value @@ d

\* A JSON string given where a list is expected: the text "gke", held as the
\* list of its characters, which is what list(existing) makes of it when a
\* later merge reads it back.  (The list ["g", "k", "e"] itself is not among
\* the payloads.)
StrGke == << <<"g">>, <<"k">>, <<"e">> >>

\* isinstance(value, list), for the value of the key constraints or facts
IsList(value) == value # StrGke

\* one turn of the loop `for key, value in updates.items()`; the value of
\* the key preferences is a dict in every payload
ApplyKey(profile, key, value) ==
    IF key = "preferences"
    THEN [profile EXCEPT !.preferences = DictUpdate(@, value)]
    ELSE IF key = "constraints" /\ IsList(value)
    THEN [profile EXCEPT !.constraints = _dedup_list(@, value)]
    ELSE IF key = "facts" /\ IsList(value)
    THEN [profile EXCEPT !.facts = _dedup_list(@, value)]
    ELSE (key :> value) @@ profile

RECURSIVE ApplyKeys(_, _, _)
ApplyKeys(profile, updates, keys) ==
    IF keys = {} THEN profile
    ELSE LET key == CHOOSE k \in keys : TRUE
         IN  ApplyKeys(ApplyKey(profile, key, updates[key]), updates, keys \ {key})

\* update_profile: the profile that is saved and returned
MergedProfile(user_id, updates) ==
    ApplyKeys(get_profile(user_id), updates, DOMAIN updates)

(***************************************************************************)
(* SpecProfile: update_profile calls on the profile store, from no file.   *)
(* The payloads are those the extraction prompt asks for: name a string,   *)
(* preferences a dict, constraints and facts lists of strings.             *)
(***************************************************************************)
ProfileItems == { <<"a">>, <<"b">>, <<"a", "b">>, <<"B", " ">> }
FactItems == { <<"a">>, <<"a", "b">> }

NoKey == <<>>

\* a payload with every key the extraction prompt names
FullPayload ==
    [name |-> "Ana", preferences |-> ("iac" :> "terraform"),
     constraints |-> <<UsesKubernetes>>, facts |-> << <<"a">> >>]

UpdatePayloads ==
    { "constraints" :> l : l \in ListsUpTo(ProfileItems, MaxIncoming) }
    \cup { "constraints" :> <<UsesKubernetesOnGKE>> }
    \cup { "facts" :> l : l \in ListsUpTo(FactItems, 1) }
    \cup { FullPayload, NoKey }

NoCall == [user_id |-> None, updates |-> NoKey]

ProfileIdle == /\ profiles = [u \in Users |-> NoFile]
               /\ p_call = NoCall

InitProfile ==
    /\ profiles = [u \in Users |-> NoFile]
    /\ p_call = NoCall

\* update_profile(user_id, updates): merge, then _save
update_profile(user_id, updates) ==
    /\ profiles' = [profiles EXCEPT ![user_id] = MergedProfile(user_id, updates)]
    /\ p_call' = [user_id |-> user_id, updates |-> updates]

\* the store keeps one file per user and update_profile reads and writes the
\* file of its user_id alone: one caller shows every merge
ProfileCallers == {"u1"}

UpdateProfile ==
    \E user_id \in ProfileCallers, updates \in UpdatePayloads :
        LET merged == MergedProfile(user_id, updates)
        IN  /\ Len(merged.constraints) <= MaxEntries
            /\ Len(merged.facts) <= MaxEntries
            /\ update_profile(user_id, updates)

(***************************************************************************)
(* CompressionEngine (compression.py): token counting and the pruner.      *)
(* A message is its role and its content; its timestamp is a wall-clock    *)
(* stamp the pruner never reads, and is left out.                          *)
(***************************************************************************)
SUMMARY_TRIGGER_MESSAGES == 6
MAX_CONTEXT_TOKENS == 2000

\* count_tokens: len(text) // 4
count_tokens(text) == Len(text) \div 4

RECURSIVE SumTokens(_)
\* sum(self.count_tokens(m["content"]) for m in messages)
SumTokens(messages) ==
    IF messages = <<>> THEN 0
    ELSE count_tokens(Head(messages).content) + SumTokens(Tail(messages))

\* `token_budget or self.MAX_CONTEXT_TOKENS`: None and 0 are both falsy
EffectiveBudget(token_budget) ==
    IF token_budget = <<>> \/ token_budget[1] = 0 THEN MAX_CONTEXT_TOKENS
    ELSE token_budget[1]

RECURSIVE KeepRecentMutOvershoot(_, _, _, _, _)
\* a loop that tests the budget before adding the message, not after
KeepRecentMutOvershoot(messages, i, kept, used, budget) ==
    IF i = 0 THEN [kept |-> kept, used |-> used]
    ELSE LET t == count_tokens(messages[i].content)
         IN  IF used > budget THEN [kept |-> kept, used |-> used]
             ELSE KeepRecentMutOvershoot(messages, i - 1, <<messages[i]>> \o kept,
                                         used + t, budget)

RECURSIVE KeepRecentMutSkip(_, _, _, _, _)
\* a loop that skips a message that does not fit (continue) and goes on
\* to older ones, instead of stopping (break)
KeepRecentMutSkip(messages, i, kept, used, budget) ==
    IF i = 0 THEN [kept |-> kept, used |-> used]
    ELSE LET t == count_tokens(messages[i].content)
         IN  IF used + t > budget
             THEN KeepRecentMutSkip(messages, i - 1, kept, used, budget)
             ELSE KeepRecentMutSkip(messages, i - 1, <<messages[i]>> \o kept,
                                    used + t, budget)

RECURSIVE KeepRecentMutCountFirst(_, _, _, _, _)
\* a loop that adds the tokens of a message to `used` before testing the
\* budget, so that the message it stops at is counted
KeepRecentMutCountFirst(messages, i, kept, used, budget) ==
    IF i = 0 THEN [kept |-> kept, used |-> used]
    ELSE LET t == count_tokens(messages[i].content)
         IN  IF used + t > budget THEN [kept |-> kept, used |-> used + t]
             ELSE KeepRecentMutCountFirst(messages, i - 1, <<messages[i]>> \o kept,
                                          used + t, budget)

RECURSIVE KeepRecent(_, _, _, _, _)
\* the loop `for m in reversed(messages)`, about to look at messages[i],
\* with `kept` and `used` as the loop has them
KeepRecent(messages, i, kept, used, budget) ==
    IF i = 0 THEN [kept |-> kept, used |-> used]
    ELSE LET t == count_tokens(messages[i].content)
         IN  IF used + t > budget THEN [kept |-> kept, used |-> used]
             ELSE KeepRecent(messages, i - 1, <<messages[i]>> \o kept,
                             used + t, budget)

\* prune_messages_to_budget(messages, summary, token_budget); the summary
\* argument is never read
prune_messages_to_budget(messages, token_budget) ==
    LET budget == EffectiveBudget(token_budget)
        total_tokens == SumTokens(messages)
        stats == [original_messages |-> Len(messages),
                  original_tokens |-> total_tokens,
                  budget |-> budget,
                  pruned |-> FALSE,
                  strategy |-> "none"]
    IN  IF total_tokens <= budget
        THEN [pruned_messages |-> messages,
              stats |-> [final_messages |-> Len(messages),
                         final_tokens |-> total_tokens] @@ stats]
        ELSE LET loop == KeepRecent(messages, Len(messages), <<>>, 0, budget)
             IN  [pruned_messages |-> loop.kept,
                  stats |-> [pruned |-> TRUE,
                             strategy |-> "keep_recent_with_summary",
                             final_messages |-> Len(loop.kept),
                             final_tokens |-> loop.used,
                             dropped_messages |-> Len(messages) - Len(loop.kept)]
                            @@ stats]

(***************************************************************************)
(* SpecPrune: the pruner as a pure function over message sequences and     *)
(* budgets.  Short contents (0 to 3 tokens) meet every small budget; long  *)
(* ones (1000, 1001 and 2001 tokens) meet the default budget of 2000,      *)
(* which None and 0 select.                                                *)
(***************************************************************************)
Text(n) == [i \in 1..n |-> "x"]

Roles == {"user", "assistant"}

ShortMessages == [role : Roles, content : {Text(3), Text(4), Text(8), Text(13)}]
LongMessages  == [role : {"user"}, content : {Text(4), Text(4000), Text(4004), Text(8004)}]

SmallBudgets == {<<>>} \cup { <<n>> : n \in 0..MaxBudget }
LargeBudgets == {<<>>, <<0>>, <<1000>>, <<MAX_CONTEXT_TOKENS>>}

NoResult == [pruned_messages |-> <<>>, stats |-> <<>>]

PruneIdle == /\ pr_messages = <<>>
             /\ pr_token_budget = <<>>
             /\ pr_result = NoResult
             /\ pr_pc = Idle

InitPrune ==
    /\ \/ /\ pr_messages \in ListsUpTo(ShortMessages, MaxMsgs)
          /\ pr_token_budget \in SmallBudgets
       \/ /\ pr_messages \in ListsUpTo(LongMessages, MaxMsgs)
          /\ pr_token_budget \in LargeBudgets
    /\ pr_result = NoResult
    /\ pr_pc = "call"

Prune ==
    /\ pr_pc = "call"
    /\ pr_result' = prune_messages_to_budget(pr_messages, pr_token_budget)
    /\ pr_pc' = "returned"
    /\ UNCHANGED <<pr_messages, pr_token_budget>>

(***************************************************************************)
(* SkillsLoader (skills.py): the index and match_skills.  A SkillSummary   *)
(* is id, name, summary, file_path and keywords; name and keywords are     *)
(* character strings, as the matcher lower-cases and searches them.        *)
(***************************************************************************)
\* the number of keywords kw with `kw.lower() in query_lower`, as the loop
\* `for kw in skill.keywords` counts them (a repeated keyword counts again)
RECURSIVE KeywordHits(_, _)
KeywordHits(keywords, query_lower) ==
    IF keywords = <<>> THEN 0
    ELSE (IF IsSubstr(Lower(Head(keywords)), query_lower) THEN 1 ELSE 0)
         + KeywordHits(Tail(keywords), query_lower)

\* a score that searches the query as typed, without query.lower()
ScoreMutNoLower(skill, query) ==
    KeywordHits(skill.keywords, query)
    + (IF IsSubstr(Lower(skill.name), query) THEN 2 ELSE 0)

\* the score the loop body of match_skills gives one skill
Score(skill, query) ==
    LET query_lower == Lower(query)
    IN  KeywordHits(skill.keywords, query_lower)
        + (IF IsSubstr(Lower(skill.name), query_lower) THEN 2 ELSE 0)

RECURSIVE Scored(_, _)
\* `matched` before the sort: (score, skill) of the skills with score > 0,
\* in index order
Scored(index, query) ==
    IF index = <<>> THEN <<>>
    ELSE LET skill == Head(index)
             score == Score(skill, query)
         IN  (IF score > 0 THEN <<[score |-> score, skill |-> skill]>> ELSE <<>>)
             \o Scored(Tail(index), query)

RECURSIVE InsertByScoreMutBeforeEqual(_, _)
\* a sort that is not stable: x goes before the entries of equal score
InsertByScoreMutBeforeEqual(sorted, x) ==
    IF sorted = <<>> THEN <<x>>
    ELSE IF Head(sorted).score > x.score
         THEN <<Head(sorted)>> \o InsertByScoreMutBeforeEqual(Tail(sorted), x)
         ELSE <<x>> \o sorted

RECURSIVE InsertByScore(_, _)
\* x put into a list sorted by score descending, after the entries of
\* equal score already there
InsertByScore(sorted, x) ==
    IF sorted = <<>> THEN <<x>>
    ELSE IF Head(sorted).score >= x.score
         THEN <<Head(sorted)>> \o InsertByScore(Tail(sorted), x)
         ELSE <<x>> \o sorted

RECURSIVE SortByScore(_, _)
\* matched.sort(key=lambda x: x[0], reverse=True): stable, score descending
SortByScore(sorted, rest) ==
    IF rest = <<>> THEN sorted
    ELSE SortByScore(InsertByScore(sorted, Head(rest)), Tail(rest))

\* match_skills(query)
match_skills(index, query) ==
    LET matched == SortByScore(<<>>, Scored(index, query))
    IN  [i \in 1..Len(matched) |-> matched[i].skill]

(***************************************************************************)
(* SpecSkills: match_skills over indexes of distinct skills and queries.   *)
(***************************************************************************)
RollbackRunbook ==
    [id |-> "rollback", summary |-> "roll a release back",
     file_path |-> "./skills_registry/rollback.md",
     name |-> <<"R", "o", "l", "l", "b", "a", "c", "k", " ", "R", "u", "n", "b", "o", "o", "k">>,
     keywords |-> << <<"r", "o", "l", "l", "b", "a", "c", "k">> >>]

ScalingGuide ==
    [id |-> "scaling", summary |-> "scale a service",
     file_path |-> "./skills_registry/scaling.md",
     name |-> <<"S", "c", "a", "l", "i", "n", "g", " ", "G", "u", "i", "d", "e">>,
     keywords |-> << <<"s", "c", "a", "l", "e">>, <<"c", "a", "p", "a", "c", "i", "t", "y">> >>]

IncidentTriage ==
    [id |-> "incident", summary |-> "triage an incident",
     file_path |-> "./skills_registry/incident.md",
     name |-> <<"I", "n", "c", "i", "d", "e", "n", "t", " ", "T", "r", "i", "a", "g", "e">>,
     keywords |-> << <<"i", "n", "c", "i", "d", "e", "n", "t">>, <<"r", "o", "l", "l", "b", "a", "c", "k">> >>]

DeployChecklist ==
    [id |-> "deploy", summary |-> "check a deployment",
     file_path |-> "./skills_registry/deploy.md",
     name |-> <<"D", "e", "p", "l", "o", "y", "m", "e", "n", "t">>,
     keywords |-> << <<"d", "e", "p", "l", "o", "y">> >>]

SkillPool == {RollbackRunbook, ScalingGuide, IncidentTriage, DeployChecklist}

\* the queries
\* "how do I roll back a deployment"
RollBackQuery ==
    <<"h", "o", "w", " ", "d", "o", " ", "I", " ", "r", "o", "l", "l", " ",
      "b", "a", "c", "k", " ", "a", " ", "d", "e", "p", "l", "o", "y", "m",
      "e", "n", "t">>

\* "how do I rollback a deployment"
RollbackQuery ==
    <<"h", "o", "w", " ", "d", "o", " ", "I", " ", "r", "o", "l", "l", "b",
      "a", "c", "k", " ", "a", " ", "d", "e", "p", "l", "o", "y", "m", "e",
      "n", "t">>

\* "use the Rollback Runbook now"
RunbookQuery ==
    <<"u", "s", "e", " ", "t", "h", "e", " ", "R", "o", "l", "l", "b", "a",
      "c", "k", " ", "R", "u", "n", "b", "o", "o", "k", " ", "n", "o", "w">>

\* "Scale capacity"
ScaleQuery ==
    <<"S", "c", "a", "l", "e", " ", "c", "a", "p", "a", "c", "i", "t", "y">>

\* "hello"
HelloQuery ==
    <<"h", "e", "l", "l", "o">>

\* the indexes: lists of at most MaxSkills skills with distinct ids
Indexes ==
    { idx \in ListsUpTo(SkillPool, MaxSkills) :
        \A i, j \in 1..Len(idx) : i # j => idx[i].id # idx[j].id }

\* "rollback the deploy scale after the incident"
EverythingQuery ==
    <<"r", "o", "l", "l", "b", "a", "c", "k", " ", "t", "h", "e", " ", "d",
      "e", "p", "l", "o", "y", " ", "s", "c", "a", "l", "e", " ", "a",
      "f", "t", "e", "r", " ", "t", "h", "e", " ", "i", "n", "c", "i", "d",
      "e", "n", "t">>

Queries == { RollBackQuery, RollbackQuery, RunbookQuery, ScaleQuery, HelloQuery,
             EverythingQuery }

\* `matched[:3]`
EXPAND_CAP == 3

\* what open(skill.file_path).read() finds: no file, an empty file, a text
FileStates == {"missing", "empty", "text"}

NoFiles == [id \in {} |-> "missing"]

\* the files of the registry: the runbook's may be anything, the others are
\* there or missing
Registries ==
    { [id \in {s.id : s \in SkillPool} |->
          IF id = "rollback" THEN r ELSE IF id \in present THEN "text" ELSE "missing"] :
      r \in FileStates, present \in SUBSET {"scaling", "incident", "deploy"} }

\* expand_skill(skill_id): the content of the file of the first skill of the
\* index with that id whose file exists, else None; "" for an empty file
expand_skill(index, files, skill_id) ==
    LET hits == {i \in 1..Len(index) :
                    index[i].id = skill_id /\ files[index[i].id] # "missing"}
    IN  IF hits = {} THEN None
        ELSE IF files[skill_id] = "empty" THEN "" ELSE "text of " \o skill_id

RECURSIVE LoadedSkills(_, _, _)
\* loaded_skills: the loop over matched[:3], from the skills `top` on
LoadedSkills(index, files, top) ==
    IF top = <<>> THEN <<>>
    ELSE LET skill == Head(top)
             content == expand_skill(index, files, skill.id)
         IN  (IF content # None /\ content # ""
              THEN <<[id |-> skill.id, name |-> skill.name,
                      summary |-> skill.summary, loaded |-> TRUE]>>
              ELSE <<>>)
             \o LoadedSkills(index, files, Tail(top))

RECURSIVE NotLoaded(_, _)
\* not_loaded: the skills of the index whose id is not among the loaded ids
NotLoaded(index, loaded_ids) ==
    IF index = <<>> THEN <<>>
    ELSE (IF Head(index).id \notin loaded_ids
          THEN <<[id |-> Head(index).id, name |-> Head(index).name,
                  summary |-> Head(index).summary, loaded |-> FALSE]>>
          ELSE <<>>)
         \o NotLoaded(Tail(index), loaded_ids)

\* get_expanded_context(query): the block (by its lines: the opening tag,
\* one section for each loaded skill, the closing tag; no line at all for
\* "") and the metadata
get_expanded_context(index, files, query) ==
    LET matched == match_skills(index, query)
        top == SubSeq(matched, 1, Min({Len(matched), EXPAND_CAP}))
        loaded_skills == LoadedSkills(index, files, top)
        loaded_ids == {loaded_skills[i].id : i \in 1..Len(loaded_skills)}
    IN  IF matched = <<>>
        THEN [context |-> <<>>, metadata |-> <<>>]
        ELSE [context |-> <<[line |-> "<expanded_skills>", id |-> None]>>
                          \o [i \in 1..Len(loaded_skills) |->
                                 [line |-> "section", id |-> loaded_skills[i].id]]
                          \o <<[line |-> "</expanded_skills>", id |-> None]>>,
              metadata |-> loaded_skills \o NotLoaded(index, loaded_ids)]

NoExpansion == [context |-> <<>>, metadata |-> <<>>]

SkillsIdle == /\ sk_index = <<>>
              /\ sk_query = <<>>
              /\ sk_matched = <<>>
              /\ sk_pc = Idle
              /\ sk_files = NoFiles
              /\ sk_expanded = NoExpansion

InitSkills ==
    /\ sk_index \in Indexes
    /\ sk_query \in Queries
    /\ sk_matched = <<>>
    /\ sk_pc = "call"
    /\ sk_files \in Registries
    /\ sk_expanded = NoExpansion

MatchSkills ==
    /\ sk_pc = "call"
    /\ sk_matched' = match_skills(sk_index, sk_query)
    /\ sk_pc' = "returned"
    /\ UNCHANGED <<sk_index, sk_query, sk_files, sk_expanded>>

ExpandedContext ==
    /\ sk_pc = "call"
    /\ sk_expanded' = get_expanded_context(sk_index, sk_files, sk_query)
    /\ sk_pc' = "expanded"
    /\ UNCHANGED <<sk_index, sk_query, sk_matched, sk_files>>

(***************************************************************************)
(* SessionStore (session_store.py).  A session file holds session_id,      *)
(* user_id, title, messages and summary; an index entry holds session_id,  *)
(* title and message_count, and a summary flag once it has been refreshed. *)
(* created_at and updated_at are wall-clock stamps no operation reads, and *)
(* are left out.  The operators take and return the store's two parts:     *)
(* [sessions |-> ..., index |-> ...].                                      *)
(***************************************************************************)
SessionIds == {"s1", "s2", "s3"}

NewSessionTitle == <<"N", "e", "w", " ", "s", "e", "s", "s", "i", "o", "n">>

\* get_session: the stored file, or None (here NoFile)
get_session(st, user_id, session_id) == st.sessions[<<user_id, session_id>>]

\* list_sessions: the index file, or [] when there is none
list_sessions(st, user_id) == st.index[user_id]

\* _update_index: a first entry for the session, unless it has one
_update_index(st, user_id, session_id) ==
    LET listed == list_sessions(st, user_id)
    IN  IF \E i \in 1..Len(listed) : listed[i].session_id = session_id
        THEN st
        ELSE [st EXCEPT !.index[user_id] =
                 Append(listed, [session_id |-> session_id,
                                 title |-> NewSessionTitle,
                                 message_count |-> 0])]

\* _refresh_index: title, message_count and summary flag of the first entry
\* of the session; the index file is written either way
_refresh_index(st, user_id, session_id, session) ==
    LET listed == list_sessions(st, user_id)
        hits == {i \in 1..Len(listed) : listed[i].session_id = session_id}
    IN  IF hits = {} THEN st
        ELSE [st EXCEPT !.index[user_id][Min(hits)] =
                 [title |-> session.title,
                  message_count |-> Len(session.messages),
                  summary |-> (session.summary # None)] @@ @]

\* time.time() at a create_session of user_id, by its rank among the
\* creations of that user's sessions
CreationTime(st, user_id) ==
    Cardinality({key \in DOMAIN st.sessions :
                    key[1] = user_id /\ st.sessions[key].exists}) + 1

\* create_session: an empty session saved, and listed in the index
create_session(st, user_id, session_id) ==
    LET session == [exists |-> TRUE, session_id |-> session_id, user_id |-> user_id,
                    title |-> NewSessionTitle, messages |-> <<>>, summary |-> None,
                    created_at |-> CreationTime(st, user_id)]
    IN  _update_index([st EXCEPT !.sessions[<<user_id, session_id>>] = session],
                      user_id, session_id)

\* content[:60].strip() + ("..." if len(content) > 60 else "")
AutoTitle(content) ==
    Strip(SubSeq(content, 1, IF Len(content) < 60 THEN Len(content) ELSE 60))
    \o (IF Len(content) > 60 THEN <<".", ".", ".">> ELSE <<>>)

\* add_message: the session created if missing, the message appended, the
\* title taken from the first user message, the file saved, the index
\* refreshed
add_message(st, user_id, session_id, role, content) ==
    LET st1 == IF get_session(st, user_id, session_id).exists THEN st
               ELSE create_session(st, user_id, session_id)
        loaded == get_session(st1, user_id, session_id)
        appended == [loaded EXCEPT !.messages =
                        Append(@, [role |-> role, content |-> content])]
        session == IF role = "user" /\ appended.title = NewSessionTitle
                   THEN [appended EXCEPT !.title = AutoTitle(content)]
                   ELSE appended
    IN  _refresh_index([st1 EXCEPT !.sessions[<<user_id, session_id>>] = session],
                       user_id, session_id, session)

\* set_summary: the summary stored in the session file, if there is one;
\* the index is not refreshed
set_summary(st, user_id, session_id, summary) ==
    IF get_session(st, user_id, session_id).exists
    THEN [st EXCEPT !.sessions[<<user_id, session_id>>].summary = summary]
    ELSE st

\* bool(summary): None and "" are falsy
Truthy(summary) == summary # None /\ summary # ""

RECURSIVE PreviousSummaryFromMutOwn(_, _, _, _)
\* a loop that does not skip the current session
PreviousSummaryFromMutOwn(st, user_id, current_session_id, i) ==
    IF i = 0 THEN None
    ELSE LET s == list_sessions(st, user_id)[i]
             prev == get_session(st, user_id, s.session_id)
         IN  IF prev.exists /\ Truthy(prev.summary)
             THEN prev.summary
             ELSE PreviousSummaryFromMutOwn(st, user_id, current_session_id, i - 1)

RECURSIVE PreviousSummaryFrom(_, _, _, _)
\* the loop `for s in reversed(sessions)` of get_previous_session_summary,
\* about to look at entry i of the index
PreviousSummaryFrom(st, user_id, current_session_id, i) ==
    IF i = 0 THEN None
    ELSE LET s == list_sessions(st, user_id)[i]
             prev == get_session(st, user_id, s.session_id)
         IN  IF /\ s.session_id # current_session_id
                /\ prev.exists
                /\ Truthy(prev.summary)
             THEN prev.summary
             ELSE PreviousSummaryFrom(st, user_id, current_session_id, i - 1)

\* get_previous_session_summary
get_previous_session_summary(st, user_id, current_session_id) ==
    PreviousSummaryFrom(st, user_id, current_session_id,
                        Len(list_sessions(st, user_id)))

\* the session store as the state holds it
Store == [sessions |-> sessions, index |-> session_index]

\* the store over an empty data directory
EmptyStore ==
    [sessions |-> [k \in Users \X SessionIds |-> NoFile],
     index |-> [u \in Users |-> <<>>]]

(***************************************************************************)
(* VectorMemoryStore (vector_store.py), as far as a turn goes: a row is    *)
(* the text, its owner, its session and its type.  The embedding, the      *)
(* random mem_id and the time stamp are left out: the turn reads none.     *)
(***************************************************************************)
TOP_K == 5

\* as if the row dropped the type it is given
MemoryRowMutUntyped(text, user_id, session_id, memory_type) ==
    [text |-> text, user_id |-> user_id, session_id |-> session_id,
     memory_type |-> "semantic"]

\* upsert_memory: the row inserted
MemoryRow(text, user_id, session_id, memory_type) ==
    [text |-> text, user_id |-> user_id, session_id |-> session_id,
     memory_type |-> memory_type]

\* The filter of a search, query or delete is a text built from the user id
\* (f'user_id == "{user_id}"') and parsed by the collection.  A text is
\* modelled as its sequence of lexemes; a user id that holds a double quote
\* is more than one lexeme.
Quote == "\""

InjectedId == "x\" or user_id != \"x"

Lexemes(user_id) ==
    IF user_id = InjectedId
    THEN <<"x", Quote, "or", "user_id", "!=", Quote, "x">>
    ELSE <<user_id>>

\* f'user_id == "{user_id}"'
FilterExpr(user_id) == <<"user_id", "==", Quote>> \o Lexemes(user_id) \o <<Quote>>

\* the position of the first double quote of expr at or after i (Len(expr) + 1
\* when there is none)
RECURSIVE ClosingQuote(_, _)
ClosingQuote(expr, i) ==
    IF i > Len(expr) THEN i
    ELSE IF expr[i] = Quote THEN i
    ELSE ClosingQuote(expr, i + 1)

\* the collection evaluates the filter on a row: comparisons of the field
\* user_id with a quoted literal, joined by `or`; "error" when the text is not
\* such an expression
RECURSIVE EvalFilter(_, _, _)
EvalFilter(expr, i, row) ==
    IF i + 3 > Len(expr) THEN "error"
    ELSE IF expr[i] # "user_id" \/ expr[i + 1] \notin {"==", "!="} \/ expr[i + 2] # Quote
    THEN "error"
    ELSE LET j == ClosingQuote(expr, i + 3)
             literal == SubSeq(expr, i + 3, j - 1)
             equal == Lexemes(row.user_id) = literal
             value == IF expr[i + 1] = "==" THEN equal ELSE ~equal
         IN  IF j > Len(expr) THEN "error"
             ELSE IF j = Len(expr) THEN (IF value THEN "true" ELSE "false")
             ELSE IF expr[j + 1] # "or" THEN "error"
             ELSE LET rest == EvalFilter(expr, j + 2, row)
                  IN  IF rest = "error" THEN "error"
                      ELSE IF value \/ rest = "true" THEN "true" ELSE "false"

RECURSIVE Filtered(_, _)
\* the rows a filter lets through
Filtered(rows, expr) ==
    IF rows = <<>> THEN <<>>
    ELSE (IF EvalFilter(expr, 1, Head(rows)) = "true" THEN <<Head(rows)>> ELSE <<>>)
         \o Filtered(Tail(rows), expr)

\* the rows the filter `user_id == "<user_id>"` lets through
OwnedBy(rows, user_id) == Filtered(rows, FilterExpr(user_id))

\* retrieve_memories(message, user_id, top_k=5): at most top_k rows of the
\* user; their order comes from the similarity search, which is external
retrieve_memories(user_id) ==
    LET owned == OwnedBy(memories, user_id)
    IN  SubSeq(owned, 1, IF Len(owned) < TOP_K THEN Len(owned) ELSE TOP_K)

\* as if the trigger were "more than 6 messages"
should_summarizeMutStrict(messages) == Len(messages) > SUMMARY_TRIGGER_MESSAGES

\* should_summarize
should_summarize(messages) == Len(messages) >= SUMMARY_TRIGGER_MESSAGES

(***************************************************************************)
(* The /chat endpoint (main.py) and OpsAgent.chat (agent.py).  A request   *)
(* is a coroutine on the server's event loop: the loop runs one coroutine  *)
(* at a time and takes another only where the running one suspends, at an  *)
(* await that does not complete at once.  tasks[t].pc is the step the      *)
(* coroutine is about to run.                                              *)
(***************************************************************************)
TaskIds == 1..MaxTasks

\* running is the set of coroutines the loop is running: none, or one
NoTask == {}

DigitChar == <<"1", "2", "3", "4", "5">>

\* the message of request t, and the reply the model gives to it
MsgOf(t) == <<"m", DigitChar[t]>>
ReplyOf(t) == <<"r", DigitChar[t]>>

\* the (user_id, session_id) pairs the clients send
RequestKeys == { <<"u1", "s1">>, <<"u1", "s2">>, <<"u2", "s1">> }

NoTaskRec ==
    [pc |-> "none", user_id |-> None, session_id |-> None, message |-> <<>>,
     context |-> <<>>, assistant_response |-> <<>>, new_memories |-> <<>>,
     stored_memories |-> <<>>,
     profile_updates |-> NoKey, mem_failed |-> FALSE, prof_failed |-> FALSE,
     merged |-> FALSE, failed_at |-> None, response |-> <<>>]

\* steps 1 to 11 of chat, by the pc of the coroutine
TurnSteps == {"store_user", "retrieve", "assemble", "generate", "store_reply",
              "extract_memories", "upsert", "extract_profile", "update_profile",
              "summarize"}

\* the steps between the user message and the reply (2 to 7)
PreReplySteps == {"retrieve", "assemble", "generate"}

\* an earlier exchange of two turns, in session s1 of user u1
OldMessages ==
    << [role |-> "user", content |-> <<"o", "1">>],
       [role |-> "assistant", content |-> <<"a", "1">>],
       [role |-> "user", content |-> <<"o", "2">>],
       [role |-> "assistant", content |-> <<"a", "2">>] >>

OldSession ==
    [exists |-> TRUE, session_id |-> "s1", user_id |-> "u1",
     title |-> AutoTitle(<<"o", "1">>), messages |-> OldMessages, summary |-> None,
     created_at |-> CreationTime(EmptyStore, "u1")]

OldIndex ==
    << [session_id |-> "s1", title |-> AutoTitle(<<"o", "1">>),
        message_count |-> Len(OldMessages), summary |-> FALSE] >>

\* the memory candidates the extraction model replies with: a well-formed
\* one, and one without its "text"
TypedMem == [text |-> <<"t", "f">>, type |-> "preference"]
NoTextMem == [type |-> "fact"]

\* the raw replies of the two extraction calls: JSON that parses, or not
RawMemoryReplies ==
    { [parses |-> FALSE, value |-> <<>>],
      [parses |-> TRUE, value |-> <<>>],
      [parses |-> TRUE, value |-> <<TypedMem>>],
      [parses |-> TRUE, value |-> <<TypedMem, NoTextMem>>] }

TurnPayload == [preferences |-> ("iac" :> "terraform"), constraints |-> <<UsesKubernetes>>]

\* JSON that parses to what update_profile cannot merge: a constraints list
\* holding the number 42, held here by its digits (new.lower() raises on it)
IllTypedPayload == [constraints |-> << <<"4", "2">> >>]

WellTyped(updates) == updates # IllTypedPayload

RawProfileReplies ==
    { [parses |-> FALSE, value |-> NoKey],
      [parses |-> TRUE, value |-> NoKey],
      [parses |-> TRUE, value |-> TurnPayload],
      [parses |-> TRUE, value |-> IllTypedPayload] }

\* json.loads(raw), with `except json.JSONDecodeError: return []` (or {})
ParseOr(raw, fallback) == IF raw.parses THEN raw.value ELSE fallback

\* the texts rolling_summarize returns for a history
SummaryTexts(all_messages) ==
    { "summary of " \o ToString(Len(all_messages)) \o " messages" }

\* format_profile_context(user_id) # ""
HasProfileContext(user_id) ==
    LET profile == get_profile(user_id)
    IN  \/ DOMAIN profile.preferences # {}
        \/ profile.constraints # <<>>
        \/ profile.facts # <<>>

\* context_parts of step 6, by the name of each block, in the order the
\* blocks are appended
ContextParts(user_id, session_id, message) ==
    LET session == get_session(Store, user_id, session_id)
    IN  (IF HasProfileContext(user_id) THEN <<"user_profile">> ELSE <<>>)
        \o (IF Truthy(get_previous_session_summary(Store, user_id, session_id))
            THEN <<"episodic_memory">> ELSE <<>>)
        \o (IF retrieve_memories(user_id) # <<>>
            THEN <<"retrieved_memories">> ELSE <<>>)
        \o (IF get_expanded_context(sk_index, sk_files, message).context # <<>>
            THEN <<"expanded_skills">> ELSE <<>>)
        \o (IF session.exists /\ Truthy(session.summary)
            THEN <<"conversation_summary">> ELSE <<>>)

\* as if the generation call were awaited
SuspendsMutAwaitGenerate(pc) == pc = "generate"

\* whether the coroutine gives up the event loop when it reaches step pc:
\* chat and the endpoint that awaits it hold no await that suspends (every
\* store, embedding and model call is a blocking call)
Suspends(pc) == FALSE

\* the coroutine t goes on as rec
Goes(t, rec) ==
    /\ tasks' = [tasks EXCEPT ![t] = rec]
    /\ running' = IF Suspends(rec.pc) THEN NoTask ELSE {t}

\* what is left of a request that has ended: how it ended, what it was for
\* and what it touched; the locals of the coroutine are gone
Ended(task, pc, failed_at) ==
    [NoTaskRec EXCEPT !.pc = pc, !.failed_at = failed_at,
                      !.user_id = task.user_id, !.session_id = task.session_id,
                      !.message = task.message,
                      !.merged = task.merged,
                      !.response = IF pc = "returned" THEN task.assistant_response ELSE <<>>]

\* the coroutine t ends as rec: the loop is free
Ends(t, rec) ==
    /\ tasks' = [tasks EXCEPT ![t] = rec]
    /\ running' = NoTask

\* as if step 9 had no try/except
OnMemoryErrorMutRaise(task) ==
    [task EXCEPT !.pc = "failed", !.failed_at = "extract_memories", !.mem_failed = TRUE,
                 !.new_memories = <<>>, !.stored_memories = <<>>]

\* `except Exception` of step 9: logged, chat goes on with step 10
OnMemoryError(task) ==
    [task EXCEPT !.pc = "extract_profile", !.mem_failed = TRUE, !.new_memories = <<>>,
                 !.stored_memories = <<>>]

\* `except Exception` of step 10: logged, chat goes on with step 11
OnProfileError(task) ==
    [task EXCEPT !.pc = "summarize", !.prof_failed = TRUE]

\* as if the user message were taken back
OnTurnErrorMutRollback(user_id, session_id) ==
    [Store EXCEPT !.sessions[<<user_id, session_id>>].messages =
        SubSeq(@, 1, Len(@) - 1)]

\* the session store after an exception has left chat at a step with no
\* handler: as the steps before left it
OnTurnError(user_id, session_id) == Store

\* an exception leaves chat at step `step`: the request fails
Raise(t, step) ==
    LET task == tasks[t]
        st == OnTurnError(task.user_id, task.session_id)
    IN  /\ Ends(t, Ended(task, "failed", step))
        /\ sessions' = st.sessions
        /\ session_index' = st.index
        /\ UNCHANGED <<memories, st_call, profileVars>>

NoStoreCall == [op |-> None, user_id |-> None, session_id |-> None, result |-> None]

TurnIdle == /\ sessions = [k \in Users \X SessionIds |-> NoFile]
            /\ session_index = [u \in Users |-> <<>>]
            /\ memories = <<>>
            /\ st_call = NoStoreCall
            /\ tasks = <<>>
            /\ running = NoTask

InitTurn ==
    /\ sessions = [k \in Users \X SessionIds |->
                      IF k = <<"u1", "s1">> THEN OldSession ELSE NoFile]
    /\ session_index = [u \in Users |-> IF u = "u1" THEN OldIndex ELSE <<>>]
    /\ memories = <<>>
    /\ st_call = NoStoreCall
    /\ tasks = [t \in TaskIds |-> NoTaskRec]
    /\ running = NoTask
    /\ profiles = [u \in Users |-> NoFile]
    /\ p_call = NoCall

\* a client sends request t (requests are numbered as they are sent)
Request(t) ==
    \E key \in RequestKeys :
        /\ tasks[t].pc = "none"
        /\ \A o \in TaskIds : o < t => tasks[o].pc # "none"
        /\ tasks' = [tasks EXCEPT ![t] =
                        [NoTaskRec EXCEPT !.pc = "pending", !.user_id = key[1],
                                          !.session_id = key[2], !.message = MsgOf(t)]]
        /\ UNCHANGED <<running, storeVars, profileVars>>

\* the event loop is free and takes a coroutine that has not ended
Schedule(t) ==
    /\ running = NoTask
    /\ tasks[t].pc \in {"pending"} \cup TurnSteps
    /\ running' = {t}
    /\ UNCHANGED <<tasks, storeVars, profileVars>>

\* main.py, chat: the session is created if there is none, and agent.chat
\* is awaited
EnsureSession(t) ==
    LET task == tasks[t]
        st == IF get_session(Store, task.user_id, task.session_id).exists
              THEN Store
              ELSE create_session(Store, task.user_id, task.session_id)
    IN  /\ running = {t}
        /\ task.pc = "pending"
        /\ sessions' = st.sessions
        /\ session_index' = st.index
        /\ Goes(t, [task EXCEPT !.pc = "store_user"])
        /\ UNCHANGED <<memories, st_call, profileVars>>

\* step 1: add_message(user_id, session_id, "user", message)
StoreUserMessage(t) ==
    LET task == tasks[t]
        st == add_message(Store, task.user_id, task.session_id, "user", task.message)
    IN  /\ running = {t}
        /\ task.pc = "store_user"
        /\ sessions' = st.sessions
        /\ session_index' = st.index
        /\ Goes(t, [task EXCEPT !.pc = "retrieve"])
        /\ UNCHANGED <<memories, st_call, profileVars>>

\* step 2: retrieve_memories returns
Retrieve(t) ==
    /\ running = {t}
    /\ tasks[t].pc = "retrieve"
    /\ Goes(t, [tasks[t] EXCEPT !.pc = "assemble"])
    /\ UNCHANGED <<storeVars, profileVars>>

\* step 2: the embedding call or the search raises
RetrieveFail(t) ==
    /\ running = {t}
    /\ tasks[t].pc = "retrieve"
    /\ Raise(t, "retrieve")

\* steps 3 to 6: profile, episodic context, skills, pruning, context_parts
Assemble(t) ==
    LET task == tasks[t]
    IN  /\ running = {t}
        /\ task.pc = "assemble"
        /\ Goes(t, [task EXCEPT !.pc = "generate",
                                !.context = ContextParts(task.user_id, task.session_id,
                                                         task.message)])
        /\ UNCHANGED <<storeVars, profileVars>>

\* step 7: the model replies
Generate(t) ==
    /\ running = {t}
    /\ tasks[t].pc = "generate"
    /\ Goes(t, [tasks[t] EXCEPT !.pc = "store_reply", !.context = <<>>,
                                 !.assistant_response = ReplyOf(t)])
    /\ UNCHANGED <<storeVars, profileVars>>

\* step 7: generate_content raises
GenerateFail(t) ==
    /\ running = {t}
    /\ tasks[t].pc = "generate"
    /\ Raise(t, "generate")

\* step 8: add_message(user_id, session_id, "assistant", assistant_response)
StoreReply(t) ==
    LET task == tasks[t]
        st == add_message(Store, task.user_id, task.session_id, "assistant",
                          task.assistant_response)
    IN  /\ running = {t}
        /\ task.pc = "store_reply"
        /\ sessions' = st.sessions
        /\ session_index' = st.index
        /\ Goes(t, [task EXCEPT !.pc = "extract_memories"])
        /\ UNCHANGED <<memories, st_call, profileVars>>

\* step 9: extract_memories returns the parsed reply, or [] for a reply that
\* does not parse
ExtractMemories(t) ==
    \E raw \in RawMemoryReplies :
        LET new_memories == ParseOr(raw, <<>>)
        IN  /\ running = {t}
            /\ tasks[t].pc = "extract_memories"
            /\ Goes(t, [tasks[t] EXCEPT
                          !.pc = IF new_memories = <<>> THEN "extract_profile" ELSE "upsert",
                          !.new_memories = new_memories])
            /\ UNCHANGED <<storeVars, profileVars>>

\* step 9: the extraction call raises
ExtractMemoriesFail(t) ==
    /\ running = {t}
    /\ tasks[t].pc = "extract_memories"
    /\ Goes(t, OnMemoryError(tasks[t]))
    /\ UNCHANGED <<storeVars, profileVars>>

\* the candidate the loop `for mem in new_memories` is at: each turn of the
\* loop appends one entry to stored_memories
NextCandidate(task) == task.new_memories[Len(task.stored_memories) + 1]

\* step 9, one turn of `for mem in new_memories`: the row is inserted
Upsert(t) ==
    LET task == tasks[t]
        mem == NextCandidate(task)
        stored == MemoryRow(mem.text, task.user_id, task.session_id,
                            IF "type" \in DOMAIN mem THEN mem.type ELSE "semantic")
        last == Len(task.stored_memories) + 1 = Len(task.new_memories)
    IN  /\ running = {t}
        /\ task.pc = "upsert"
        /\ "text" \in DOMAIN mem
        /\ memories' = Append(memories, stored)
        /\ Goes(t, [task EXCEPT !.pc = IF last THEN "extract_profile" ELSE "upsert",
                                !.stored_memories = Append(@, stored)])
        /\ UNCHANGED <<sessions, session_index, st_call, profileVars>>

\* step 9: mem["text"] is missing, or the embedding or the insert raises
UpsertFail(t) ==
    /\ running = {t}
    /\ tasks[t].pc = "upsert"
    /\ Goes(t, OnMemoryError(tasks[t]))
    /\ UNCHANGED <<storeVars, profileVars>>

\* step 10: extract_profile_updates returns the parsed reply, or {} for a
\* reply that does not parse; an empty dict is falsy and skips the update
ExtractProfile(t) ==
    \E raw \in RawProfileReplies :
        LET profile_updates == ParseOr(raw, NoKey)
        IN  /\ running = {t}
            /\ tasks[t].pc = "extract_profile"
            /\ Goes(t, [tasks[t] EXCEPT
                          !.pc = IF profile_updates = NoKey THEN "summarize"
                                 ELSE "update_profile",
                          !.profile_updates = profile_updates])
            /\ UNCHANGED <<storeVars, profileVars>>

\* step 10: the extraction call raises
ExtractProfileFail(t) ==
    /\ running = {t}
    /\ tasks[t].pc = "extract_profile"
    /\ Goes(t, OnProfileError(tasks[t]))
    /\ UNCHANGED <<storeVars, profileVars>>

\* step 10: update_profile merges and saves
ApplyProfileUpdates(t) ==
    /\ running = {t}
    /\ tasks[t].pc = "update_profile"
    /\ WellTyped(tasks[t].profile_updates)
    /\ update_profile(tasks[t].user_id, tasks[t].profile_updates)
    /\ Goes(t, [tasks[t] EXCEPT !.pc = "summarize", !.merged = TRUE])
    /\ UNCHANGED storeVars

\* step 10: update_profile raises (on an ill-typed value, or on reading the
\* file), before _save
ApplyProfileUpdatesFail(t) ==
    /\ running = {t}
    /\ tasks[t].pc = "update_profile"
    /\ Goes(t, OnProfileError(tasks[t]))
    /\ UNCHANGED <<storeVars, profileVars>>

\* all_messages of step 11
AllMessages(task) == get_session(Store, task.user_id, task.session_id).messages

\* step 11, should_summarize is false: chat returns the reply
Return(t) ==
    LET task == tasks[t]
    IN  /\ running = {t}
        /\ task.pc = "summarize"
        /\ ~should_summarize(AllMessages(task))
        /\ Ends(t, Ended(task, "returned", None))
        /\ UNCHANGED <<storeVars, profileVars>>

\* rolling_summarize: what the prompt is given as the existing summary
\* (existing_summary or "(none)")
ExistingSummary(existing_summary) ==
    IF Truthy(existing_summary) THEN existing_summary ELSE "(none)"

\* the call rolling_summarize(all_messages, existing_summary) of a turn and the
\* text it returned
SummarizeCall(task, all_messages, existing_summary, summary) ==
    [op |-> "rolling_summarize", user_id |-> task.user_id,
     session_id |-> task.session_id,
     result |-> [messages |-> Len(all_messages),
                 existing_summary |-> ExistingSummary(existing_summary),
                 summary |-> summary]]

\* step 11: rolling_summarize returns, set_summary, chat returns the reply
Summarize(t) ==
    /\ running = {t}
    /\ tasks[t].pc = "summarize"
    /\ should_summarize(AllMessages(tasks[t]))
    /\ \E summary \in SummaryTexts(AllMessages(tasks[t])) :
           LET task == tasks[t]
               updated_session == get_session(Store, task.user_id, task.session_id)
               st == set_summary(Store, task.user_id, task.session_id, summary)
           IN  /\ sessions' = st.sessions
               /\ session_index' = st.index
               /\ st_call' = SummarizeCall(task, AllMessages(task),
                                           updated_session.summary, summary)
               /\ Ends(t, Ended(task, "returned", None))
               /\ UNCHANGED <<memories, profileVars>>

\* step 11: rolling_summarize raises, and nothing in chat catches it
SummarizeFail(t) ==
    /\ running = {t}
    /\ tasks[t].pc = "summarize"
    /\ should_summarize(AllMessages(tasks[t]))
    /\ Raise(t, "summarize")

(***************************************************************************)
(* SpecStore: the writes of SessionStore on one session, from a store with *)
(* no file, with the message contents that matter to the title: the text   *)
(* "New session", the same after a blank, a short text, a text of 61       *)
(* characters.                                                             *)
(* SpecEpisodic: sessions of two users created and summarized in any       *)
(* order, and get_previous_session_summary read for each.                  *)
(***************************************************************************)
TitleKeys == { <<"u1", "s1">> }

StoreKeys == { <<"u1", "s1">>, <<"u1", "s2">>, <<"u1", "s3">>, <<"u2", "s1">> }

UserContents == { NewSessionTitle, <<" ">> \o NewSessionTitle, <<"h", "i">>, Text(61) }

StoreMessages ==
    [role : {"user"}, content : UserContents]
    \cup [role : {"assistant"}, content : { <<"o", "k">> }]

\* the texts set_summary is given for a session: a summary, or ""
StoreSummaries(session_id) == { "", "summary of " \o session_id }

RECURSIVE CountMessages(_)
\* the messages of the sessions `keys`, counted
CountMessages(keys) ==
    IF keys = {} THEN 0
    ELSE LET key == CHOOSE k \in keys : TRUE
         IN  (IF sessions[key].exists THEN Len(sessions[key].messages) ELSE 0)
             + CountMessages(keys \ {key})

InitStore ==
    /\ sessions = [k \in Users \X SessionIds |-> NoFile]
    /\ session_index = [u \in Users |-> <<>>]
    /\ memories = <<>>
    /\ st_call = NoStoreCall
    /\ tasks = <<>>
    /\ running = NoTask

\* the store st is written back
Written(st) ==
    /\ sessions' = st.sessions
    /\ session_index' = st.index
    /\ st_call' = NoStoreCall
    /\ UNCHANGED <<memories, loopVars>>

\* create_session, for a session that has no file (its callers make the id
\* anew, or look first)
CreateSession(keys) ==
    \E key \in keys :
        /\ ~sessions[key].exists
        /\ Written(create_session(Store, key[1], key[2]))

AddMessage(keys) ==
    \E key \in keys, message \in StoreMessages :
        /\ CountMessages(keys) < MaxStoreMsgs
        /\ Written(add_message(Store, key[1], key[2], message.role, message.content))

SetSummary(keys) ==
    \E key \in keys :
        \E summary \in StoreSummaries(key[2]) :
            /\ sessions[key].exists
            /\ sessions[key].summary # summary
            /\ Written(set_summary(Store, key[1], key[2], summary))

PreviousSummary(keys) ==
    \E key \in keys :
        /\ st_call' = [op |-> "get_previous_session_summary", user_id |-> key[1],
                       session_id |-> key[2],
                       result |-> get_previous_session_summary(Store, key[1], key[2])]
        /\ UNCHANGED <<sessions, session_index, memories, loopVars>>

(***************************************************************************)
(* SpecRetrieve: the re-ranking of retrieve_memories (vector_store.py       *)
(* 106-135) on the hits of a search.  Scores are integers: a similarity and *)
(* a recency in millionths, the rounded fields in ten-thousandths.  A hit   *)
(* is its similarity (the "distance" of the search) and its time stamp in   *)
(* seconds; the search returns the most similar first and settles hits of   *)
(* equal similarity in an order of its own.                                 *)
(***************************************************************************)
SEARCH_CAP == 20

\* time.time() of the call, in seconds
Now == 400000

HALF_LIFE == 172800      \* 48 hours, in seconds

Similarities == {900000, 900040, 600000}

Stamps == {Now, Now - 1, Now - HALF_LIFE}

HitPool == [similarity : Similarities, timestamp : Stamps]

\* 2 ** (-age_hours / 48), in millionths
RecencyScore(age) ==
    CASE age = 0 -> 1000000
      [] age = 1 -> 999996
      [] age = HALF_LIFE -> 500000
      [] age = 2 * HALF_LIFE -> 250000

\* n / d rounded to the nearest integer; round(x, 4) of a value x given in
\* millionths is RoundTo(x, 100), in ten-thousandths
RoundTo(n, d) == (2 * n + d) \div (2 * d)

\* one entry of `scored`
ScoredHit(hit) ==
    LET recency_score == RecencyScore(Now - hit.timestamp)
        \* (1 - recency_weight) * similarity + recency_weight * recency_score,
        \* with recency_weight 0.3: in ten-millionths
        combined == 7 * hit.similarity + 3 * recency_score
    IN  [timestamp |-> hit.timestamp,
         similarity |-> RoundTo(hit.similarity, 100),
         recency_score |-> RoundTo(recency_score, 100),
         combined_score |-> RoundTo(combined, 1000)]

RECURSIVE ScoredHits(_)
ScoredHits(hits) ==
    IF hits = <<>> THEN <<>> ELSE <<ScoredHit(Head(hits))>> \o ScoredHits(Tail(hits))

RECURSIVE InsertByCombinedMutAscending(_, _)
\* as if the sort were ascending
InsertByCombinedMutAscending(sorted, x) ==
    IF sorted = <<>> THEN <<x>>
    ELSE IF Head(sorted).combined_score <= x.combined_score
         THEN <<Head(sorted)>> \o InsertByCombinedMutAscending(Tail(sorted), x)
         ELSE <<x>> \o sorted

RECURSIVE InsertByCombined(_, _)
\* x put into a list sorted by combined_score descending, after the entries
\* of equal combined_score already there
InsertByCombined(sorted, x) ==
    IF sorted = <<>> THEN <<x>>
    ELSE IF Head(sorted).combined_score >= x.combined_score
         THEN <<Head(sorted)>> \o InsertByCombined(Tail(sorted), x)
         ELSE <<x>> \o sorted

RECURSIVE SortByCombined(_, _)
\* scored.sort(key=lambda x: x["combined_score"], reverse=True): stable
SortByCombined(sorted, rest) ==
    IF rest = <<>> THEN sorted
    ELSE SortByCombined(InsertByCombined(sorted, Head(rest)), Tail(rest))

\* retrieve_memories from the hits on: score, sort, scored[:top_k]
Rerank(hits, top_k) ==
    LET scored == SortByCombined(<<>>, ScoredHits(hits))
    IN  SubSeq(scored, 1, Min({top_k, Len(scored)}))

\* limit=min(top_k * 2, 20)
SearchLimit(top_k) == Min({top_k * 2, SEARCH_CAP})

\* what a search can return: distinct rows, the most similar first
SearchResults(top_k) ==
    { hits \in ListsUpTo(HitPool, Min({MaxHits, SearchLimit(top_k)})) :
        /\ \A i, j \in 1..Len(hits) : i < j => hits[i] # hits[j]
        /\ \A i \in 1..(Len(hits) - 1) : hits[i].similarity >= hits[i + 1].similarity }

RetrieveIdle == /\ rt_hits = <<>>
                /\ rt_top_k = 0
                /\ rt_result = <<>>
                /\ rt_pc = "<idle>"

InitRetrieve ==
    /\ rt_top_k \in 1..MaxTopK
    /\ rt_hits \in SearchResults(rt_top_k)
    /\ rt_result = <<>>
    /\ rt_pc = "call"

RetrieveRanked ==
    /\ rt_pc = "call"
    /\ rt_result' = Rerank(rt_hits, rt_top_k)
    /\ rt_pc' = "returned"
    /\ UNCHANGED <<rt_hits, rt_top_k>>

(***************************************************************************)
(* SpecContext: steps 3 to 6 of a turn of user u1 in session s1, on stores  *)
(* as earlier turns and calls can have left them: a profile with no file,   *)
(* with a name only, with preferences, or with every key; an earlier        *)
(* session s2 with or without a summary; rows of u1 or of u2; a skill       *)
(* registry whose files are present, empty or missing.                      *)
(***************************************************************************)
Absent == "<absent>"

\* a session created, and summarized unless `summary` is None
SessionWith(st, user_id, session_id, summary) ==
    IF summary = Absent THEN st
    ELSE LET created == create_session(st, user_id, session_id)
         IN  IF summary = None THEN created
             ELSE set_summary(created, user_id, session_id, summary)

\* the stores at step 3: the earlier session s2, then the current session s1
\* with the user message of the turn (step 1)
ContextStores(message) ==
    { add_message(SessionWith(SessionWith(EmptyStore, "u1", "s2", previous),
                              "u1", "s1", current),
                  "u1", "s1", "user", message) :
        previous \in {Absent, None} \cup StoreSummaries("s2"),
        current \in {None} \cup StoreSummaries("s1") }

ContextProfiles ==
    {NoFile}
    \cup { ApplyKeys(_default_profile("u1"), updates, DOMAIN updates) :
             updates \in { [name |-> "Ana"],
                           [preferences |-> ("iac" :> "terraform")],
                           FullPayload } }

ContextMemories ==
    { <<>>, <<MemoryRow(<<"t", "f">>, "u1", "s2", "preference")>>,
      <<MemoryRow(<<"t", "f">>, "u2", "s1", "preference")>> }

ContextIndexes == { <<>>, <<RollbackRunbook>>, <<ScalingGuide, RollbackRunbook>> }

InitContext ==
    /\ sk_query \in {RollbackQuery, HelloQuery}
    /\ \E st \in ContextStores(sk_query) :
           sessions = st.sessions /\ session_index = st.index
    /\ profiles \in [Users -> ContextProfiles]
    /\ profiles["u2"] = NoFile
    /\ p_call = NoCall
    /\ memories \in ContextMemories
    /\ sk_index \in ContextIndexes
    /\ sk_files \in Registries
    /\ sk_matched = <<>>
    /\ sk_pc = Idle
    /\ sk_expanded = NoExpansion
    /\ st_call = NoStoreCall
    /\ tasks = <<>>
    /\ running = NoTask

\* steps 3 to 6 of chat("u1", "s1", message): context_parts
AssembleContext ==
    /\ st_call = NoStoreCall
    /\ st_call' = [op |-> "context_parts", user_id |-> "u1", session_id |-> "s1",
                   result |-> ContextParts("u1", "s1", sk_query)]
    /\ UNCHANGED <<sessions, session_index, memories, loopVars>>

(***************************************************************************)
(* SpecScope: the memory collection under upsert_memory, retrieve_memories *)
(* and delete_memories, called for user ids as a request can carry them    *)
(* (ChatRequest.user_id and the path parameter are any text): two plain    *)
(* ids and one that holds double quotes.                                   *)
(***************************************************************************)
OwnerIds == Users \cup {InjectedId}

MemoryTypes == {"preference", "semantic"}

\* delete_memories: the rows left by a delete with the filter of user_id
RECURSIVE delete_memories(_, _)
delete_memories(rows, user_id) ==
    IF rows = <<>> THEN <<>>
    ELSE (IF EvalFilter(FilterExpr(user_id), 1, Head(rows)) = "true"
          THEN <<>> ELSE <<Head(rows)>>)
         \o delete_memories(Tail(rows), user_id)

StoreCall(op, user_id, result) ==
    [op |-> op, user_id |-> user_id, session_id |-> None, result |-> result]

UpsertMemory ==
    \E user_id \in OwnerIds, memory_type \in MemoryTypes :
        /\ Len(memories) < MaxRows
        /\ memories' = Append(memories, MemoryRow(<<"t", "f">>, user_id, "s1", memory_type))
        /\ st_call' = StoreCall("upsert_memory", user_id, <<>>)
        /\ UNCHANGED <<sessions, session_index, loopVars>>

\* step 2 of a turn of user_id: the rows that go into <retrieved_memories>
RetrieveMemories ==
    \E user_id \in OwnerIds :
        /\ st_call' = StoreCall("retrieve_memories", user_id, retrieve_memories(user_id))
        /\ UNCHANGED <<sessions, session_index, memories, loopVars>>

\* DELETE /memory/{user_id}
DeleteMemories ==
    \E user_id \in OwnerIds :
        /\ memories' = delete_memories(memories, user_id)
        /\ st_call' = StoreCall("delete_memories", user_id, <<>>)
        /\ UNCHANGED <<sessions, session_index, loopVars>>

(***************************************************************************)
(* Specifications.                                                         *)
(***************************************************************************)
NextMerge == \/ MergeOnce /\ UNCHANGED <<profileVars, pruneVars, skillVars, storeVars, loopVars, retrieveVars>>
             \/ MergeTwice /\ UNCHANGED <<profileVars, pruneVars, skillVars, storeVars, loopVars, retrieveVars>>

InitSpecMerge == InitMerge /\ ProfileIdle /\ PruneIdle /\ SkillsIdle /\ TurnIdle /\ RetrieveIdle

SpecMerge == InitSpecMerge /\ [][NextMerge]_vars

NextProfile == UpdateProfile /\ UNCHANGED <<mergeVars, pruneVars, skillVars, storeVars, loopVars, retrieveVars>>

InitSpecProfile == InitProfile /\ MergeIdle /\ PruneIdle /\ SkillsIdle /\ TurnIdle /\ RetrieveIdle

NextPrune == Prune /\ UNCHANGED <<mergeVars, profileVars, skillVars, storeVars, loopVars, retrieveVars>>

InitSpecPrune == InitPrune /\ MergeIdle /\ ProfileIdle /\ SkillsIdle /\ TurnIdle /\ RetrieveIdle

SpecPrune == InitSpecPrune /\ [][NextPrune]_vars

NextSkills == \/ MatchSkills /\ UNCHANGED <<mergeVars, profileVars, pruneVars, storeVars, loopVars, retrieveVars>>
              \/ ExpandedContext /\ UNCHANGED <<mergeVars, profileVars, pruneVars, storeVars, loopVars, retrieveVars>>

InitSpecSkills == InitSkills /\ MergeIdle /\ ProfileIdle /\ PruneIdle /\ TurnIdle /\ RetrieveIdle

SpecSkills == InitSpecSkills /\ [][NextSkills]_vars

SpecProfile == InitSpecProfile /\ [][NextProfile]_vars

\* ---- update_profile with payloads of any keys and value types ----

\* What the extraction step can hand to update_profile: a key the default
\* profile has (user_id, name), a key it does not have (role), a string where
\* a list is expected, a list holding a number, and well-formed lists.
AnyPayloads ==
    { [user_id |-> "u2"],
      [role |-> "sre"],
      [constraints |-> StrGke],
      [facts |-> StrGke],
      [constraints |-> <<UsesKubernetesOnGKE>>],
      [constraints |-> <<UsesKubernetes>>, facts |-> << <<"a">> >>],
      FullPayload,
      IllTypedPayload }

\* update_profile(user_id, updates) runs to its end and saves
UpdateAnyProfile ==
    \E user_id \in ProfileCallers, updates \in AnyPayloads :
        LET merged == MergedProfile(user_id, updates)
        IN  /\ WellTyped(updates)
            /\ Len(merged.constraints) <= MaxEntries
            /\ Len(merged.facts) <= MaxEntries
            /\ update_profile(user_id, updates)

\* update_profile(user_id, updates) raises in _dedup_list, before _save
UpdateProfileRaises ==
    \E user_id \in ProfileCallers, updates \in AnyPayloads :
        /\ ~WellTyped(updates)
        /\ p_call' = [user_id |-> user_id, updates |-> updates]
        /\ UNCHANGED profiles

NextPayload == \/ UpdateAnyProfile /\ UNCHANGED <<mergeVars, pruneVars, skillVars, storeVars, loopVars, retrieveVars>>
               \/ UpdateProfileRaises /\ UNCHANGED <<mergeVars, pruneVars, skillVars, storeVars, loopVars, retrieveVars>>

InitSpecPayload == InitProfile /\ MergeIdle /\ PruneIdle /\ SkillsIdle /\ TurnIdle /\ RetrieveIdle

SpecPayload == InitSpecPayload /\ [][NextPayload]_vars

otherVars == <<mergeVars, pruneVars, skillVars, retrieveVars>>

idleOfStore == <<mergeVars, profileVars, pruneVars, skillVars, retrieveVars>>

NextStore ==
    \/ CreateSession(TitleKeys) /\ UNCHANGED idleOfStore
    \/ AddMessage(TitleKeys) /\ UNCHANGED idleOfStore
    \/ SetSummary(TitleKeys) /\ UNCHANGED idleOfStore

InitSpecStore == InitStore /\ MergeIdle /\ ProfileIdle /\ PruneIdle /\ SkillsIdle /\ RetrieveIdle

SpecStore == InitSpecStore /\ [][NextStore]_vars

NextEpisodic ==
    \/ CreateSession(StoreKeys) /\ UNCHANGED idleOfStore
    \/ SetSummary(StoreKeys) /\ UNCHANGED idleOfStore
    \/ PreviousSummary(StoreKeys) /\ UNCHANGED idleOfStore

InitSpecEpisodic == InitStore /\ MergeIdle /\ ProfileIdle /\ PruneIdle /\ SkillsIdle /\ RetrieveIdle

SpecEpisodic == InitSpecEpisodic /\ [][NextEpisodic]_vars

NextScope ==
    \/ UpsertMemory /\ UNCHANGED idleOfStore
    \/ RetrieveMemories /\ UNCHANGED idleOfStore
    \/ DeleteMemories /\ UNCHANGED idleOfStore

InitSpecScope == TurnIdle /\ MergeIdle /\ ProfileIdle /\ PruneIdle /\ SkillsIdle /\ RetrieveIdle

SpecScope == InitSpecScope /\ [][NextScope]_vars

NextContext ==
    AssembleContext /\ UNCHANGED idleOfStore

InitSpecContext == InitContext /\ MergeIdle /\ PruneIdle /\ RetrieveIdle

SpecContext == InitSpecContext /\ [][NextContext]_vars

NextRetrieve ==
    RetrieveRanked /\ UNCHANGED <<mergeVars, profileVars, pruneVars, skillVars, storeVars, loopVars>>

InitSpecRetrieve == InitRetrieve /\ MergeIdle /\ ProfileIdle /\ PruneIdle /\ SkillsIdle /\ TurnIdle

SpecRetrieve == InitSpecRetrieve /\ [][NextRetrieve]_vars

NextTurn ==
    \/ \E t \in TaskIds : Request(t) /\ UNCHANGED otherVars
    \/ \E t \in TaskIds : Schedule(t) /\ UNCHANGED otherVars
    \/ \E t \in TaskIds : EnsureSession(t) /\ UNCHANGED otherVars
    \/ \E t \in TaskIds : StoreUserMessage(t) /\ UNCHANGED otherVars
    \/ \E t \in TaskIds : Retrieve(t) /\ UNCHANGED otherVars
    \/ \E t \in TaskIds : RetrieveFail(t) /\ UNCHANGED otherVars
    \/ \E t \in TaskIds : Assemble(t) /\ UNCHANGED otherVars
    \/ \E t \in TaskIds : Generate(t) /\ UNCHANGED otherVars
    \/ \E t \in TaskIds : GenerateFail(t) /\ UNCHANGED otherVars
    \/ \E t \in TaskIds : StoreReply(t) /\ UNCHANGED otherVars
    \/ \E t \in TaskIds : ExtractMemories(t) /\ UNCHANGED otherVars
    \/ \E t \in TaskIds : ExtractMemoriesFail(t) /\ UNCHANGED otherVars
    \/ \E t \in TaskIds : Upsert(t) /\ UNCHANGED otherVars
    \/ \E t \in TaskIds : UpsertFail(t) /\ UNCHANGED otherVars
    \/ \E t \in TaskIds : ExtractProfile(t) /\ UNCHANGED otherVars
    \/ \E t \in TaskIds : ExtractProfileFail(t) /\ UNCHANGED otherVars
    \/ \E t \in TaskIds : ApplyProfileUpdates(t) /\ UNCHANGED otherVars
    \/ \E t \in TaskIds : ApplyProfileUpdatesFail(t) /\ UNCHANGED otherVars
    \/ \E t \in TaskIds : Return(t) /\ UNCHANGED otherVars
    \/ \E t \in TaskIds : Summarize(t) /\ UNCHANGED otherVars
    \/ \E t \in TaskIds : SummarizeFail(t) /\ UNCHANGED otherVars

InitSpecTurn == InitTurn /\ MergeIdle /\ PruneIdle /\ SkillsIdle /\ RetrieveIdle

SpecTurn == InitSpecTurn /\ [][NextTurn]_vars

(***************************************************************************)
(* C3: the dedup merge is idempotent: for all lists A and B, merging B     *)
(* into merge(A, B) once more gives merge(A, B) again.                     *)
(***************************************************************************)
C3_MergeIdempotent == m_pc = "twice" => m_twice = m_once

\* the second merge has run on a first merge that replaced an entry in place
C3_Witness ==
    /\ m_pc = "twice"
    /\ Len(m_once) = Len(m_existing)
    /\ m_once # m_existing

(***************************************************************************)
(* C2: after any sequence of update_profile calls from the default         *)
(* profile, neither the constraints nor the facts hold two distinct        *)
(* entries of which one, lower-cased and trimmed, is a substring of the    *)
(* other.                                                                  *)
(***************************************************************************)
NoSubstringPair(entries) ==
    \A i, j \in 1..Len(entries) :
        i # j => ~IsSubstr(Norm(entries[i]), Norm(entries[j]))

C2_NoSubstringPairs ==
    \A u \in Users :
        profiles[u].exists =>
            /\ NoSubstringPair(profiles[u].constraints)
            /\ NoSubstringPair(profiles[u].facts)

(***************************************************************************)
(* C9: each incoming item is decided by the cases, in this precedence over *)
(* the entries held: equal to an entry after lower().strip() -> dropped;   *)
(* a substring of an entry -> dropped; an entry a substring of it -> that  *)
(* entry replaced in place; otherwise appended at the end.  Merging        *)
(* ["uses Kubernetes on GKE"] into ["uses Kubernetes"] leaves the single   *)
(* entry "uses Kubernetes on GKE".                                         *)
(***************************************************************************)
ClaimedOutcome(existing, new, result) ==
    LET n == Norm(new)
        held == 1..Len(existing)
    IN  IF \E i \in held : Norm(existing[i]) = n THEN result = existing
        ELSE IF \E i \in held : IsSubstr(n, Norm(existing[i])) THEN result = existing
        ELSE IF \E i \in held : IsSubstr(Norm(existing[i]), n)
        THEN \E i \in held : /\ IsSubstr(Norm(existing[i]), n)
                             /\ result = [existing EXCEPT ![i] = new]
        ELSE result = Append(existing, new)

RECURSIVE ClaimedMerge(_, _, _)
\* every item of `incoming`, in turn, has the claimed outcome on the list
\* the items before it left, and `result` is what the last one leaves
ClaimedMerge(existing, incoming, result) ==
    IF incoming = <<>> THEN result = existing
    ELSE LET step == _dedup_list(existing, <<Head(incoming)>>)
         IN  /\ ClaimedOutcome(existing, Head(incoming), step)
             /\ ClaimedMerge(step, Tail(incoming), result)

C9_Step ==
    \A u \in Users :
        (p_call'.user_id = u /\ "constraints" \in DOMAIN p_call'.updates) =>
            /\ ClaimedMerge(get_profile(u).constraints,
                            p_call'.updates.constraints,
                            profiles'[u].constraints)
            /\ ( /\ get_profile(u).constraints = <<UsesKubernetes>>
                 /\ p_call'.updates.constraints = <<UsesKubernetesOnGKE>> )
               => profiles'[u].constraints = <<UsesKubernetesOnGKE>>

PrBudget == EffectiveBudget(pr_token_budget)
PrKept   == pr_result.pruned_messages
PrLast   == pr_messages[Len(pr_messages)]

C8_MaximalSuffix ==
    (pr_pc = "returned" /\ SumTokens(pr_messages) > PrBudget) =>
        LET n == Len(pr_messages)
            k == Len(PrKept)
        IN  /\ k < n
            /\ PrKept = SubSeq(pr_messages, n - k + 1, n)
            /\ SumTokens(PrKept) + count_tokens(pr_messages[n - k].content) > PrBudget

\* a pruning that kept some messages and dropped others, one of the
\* dropped ones small enough to fit had the loop gone on
C8_Witness ==
    /\ pr_pc = "returned"
    /\ SumTokens(pr_messages) > PrBudget
    /\ Len(PrKept) >= 1
    /\ Len(pr_messages) - Len(PrKept) >= 2
    /\ count_tokens(pr_messages[1].content) + SumTokens(PrKept) <= PrBudget

(***************************************************************************)
(* The matcher's result, as the claims read it.                            *)
(***************************************************************************)
InIndex(skill)  == \E i \in 1..Len(sk_index) : sk_index[i] = skill
Returned(skill) == \E i \in 1..Len(sk_matched) : sk_matched[i] = skill
RankOf(skill)   == CHOOSE i \in 1..Len(sk_matched) : sk_matched[i] = skill

\* skill a is ranked above skill b: a is returned, and b is not or comes later
RankedAbove(a, b) == Returned(a) /\ (Returned(b) => RankOf(a) < RankOf(b))

\* the second skill of the claim: one no keyword of which is in the query
NoKeywordHit(skill) == KeywordHits(skill.keywords, Lower(sk_query)) = 0

(***************************************************************************)
(* C10 as stated: for the query "how do I roll back a deployment" and an   *)
(* index with the skill "Rollback Runbook" (keyword "rollback") and a      *)
(* second skill with no matching keyword, the first scores at least 3 and  *)
(* is ranked above the second.                                             *)
(***************************************************************************)
C10_Original ==
    (sk_pc = "returned" /\ sk_query = RollBackQuery /\ InIndex(RollbackRunbook)) =>
        \A i \in 1..Len(sk_index) :
            (sk_index[i] # RollbackRunbook /\ NoKeywordHit(sk_index[i])) =>
                /\ Score(RollbackRunbook, sk_query) >= 3
                /\ RankedAbove(RollbackRunbook, sk_index[i])

(***************************************************************************)
(* C10 as amended: for that query the skill scores 0 and is not returned,  *)
(* as neither "rollback" nor "rollback runbook" is a substring of "how do  *)
(* i roll back a deployment"; for a query that contains the name, "use     *)
(* the Rollback Runbook now", it scores 3 (keyword hit + name substring)   *)
(* and is ranked above every skill with no matching keyword.               *)
(***************************************************************************)
C10_SubstringScore ==
    (sk_pc = "returned" /\ InIndex(RollbackRunbook)) =>
        /\ sk_query = RollBackQuery =>
              /\ Score(RollbackRunbook, sk_query) = 0
              /\ ~Returned(RollbackRunbook)
        /\ sk_query = RunbookQuery =>
              /\ Score(RollbackRunbook, sk_query) = 3
              /\ \A i \in 1..Len(sk_index) :
                    (sk_index[i] # RollbackRunbook /\ NoKeywordHit(sk_index[i])) =>
                        RankedAbove(RollbackRunbook, sk_index[i])

\* the matcher has answered the claim's query on an index that holds the
\* runbook after a skill with no matching keyword
C10_Witness ==
    /\ sk_pc = "returned"
    /\ sk_query = RollBackQuery
    /\ Len(sk_index) = 2
    /\ sk_index[2] = RollbackRunbook
    /\ NoKeywordHit(sk_index[1])
    /\ sk_matched = <<>>

(***************************************************************************)
(* The turn: what the claims say of SpecTurn.                              *)
(***************************************************************************)
\* the messages of the session request t is for, in the store `held`
MessagesOf(held, t) ==
    LET session == held[<<tasks[t].user_id, tasks[t].session_id>>]
    IN  IF session.exists THEN session.messages ELSE <<>>

Holds(messages, role, content) ==
    \E i \in 1..Len(messages) : messages[i] = [role |-> role, content |-> content]

PositionOf(messages, role, content) ==
    Min({i \in 1..Len(messages) : messages[i] = [role |-> role, content |-> content]})

InFlight(t) == tasks[t].pc \in TurnSteps

SameOwner(t1, t2) == tasks[t1].user_id = tasks[t2].user_id

SameSession(t1, t2) == SameOwner(t1, t2) /\ tasks[t1].session_id = tasks[t2].session_id

\* the messages the turn of request t has appended so far
AppendedBy(t) ==
    LET task == tasks[t]
    IN  IF task.pc \in {"none", "pending", "store_user"} THEN 0
        ELSE IF task.pc \in PreReplySteps \cup {"store_reply"} THEN 1
        ELSE IF task.pc = "failed" /\ task.failed_at \in PreReplySteps THEN 1
        ELSE 2

RECURSIVE AppendedTo(_, _)
\* the messages the turns of requests 1..n have appended to session key
AppendedTo(key, n) ==
    IF n = 0 THEN 0
    ELSE AppendedTo(key, n - 1)
         + (IF <<tasks[n].user_id, tasks[n].session_id>> = key THEN AppendedBy(n) ELSE 0)

InitialMessages(key) == IF key = <<"u1", "s1">> THEN OldMessages ELSE <<>>

\* the profile of user_id holds what merging TurnPayload gives
HoldsMerge(user_id) ==
    LET profile == get_profile(user_id)
    IN  /\ \A k \in DOMAIN TurnPayload.preferences :
              /\ k \in DOMAIN profile.preferences
              /\ profile.preferences[k] = TurnPayload.preferences[k]
        /\ \A i \in 1..Len(TurnPayload.constraints) :
              \E j \in 1..Len(profile.constraints) :
                  IsSubstr(Norm(TurnPayload.constraints[i]), Norm(profile.constraints[j]))

C5_SummaryFailureReturnsReply ==
    \A t \in TaskIds :
        tasks[t].pc = "failed" => tasks[t].failed_at \in PreReplySteps

WriteBackSteps == {"extract_memories", "upsert", "extract_profile", "update_profile"}

\* C6: a failure in memory extraction or ingestion leaves the turn at profile
\* extraction, and a failure in profile extraction or update leaves it at the
\* summarization check, in both cases with the reply in the session; no step
\* of the write-back fails the turn; and a turn that returns, returns the
\* reply that is in the session.
C6_Step ==
    \A t \in TaskIds :
        LET before == tasks[t]
            after == tasks'[t]
        IN  /\ (before.pc \in {"extract_memories", "upsert"}
                  /\ after.mem_failed /\ ~before.mem_failed) =>
                   /\ after.pc = "extract_profile"
                   /\ Holds(MessagesOf(sessions', t), "assistant", ReplyOf(t))
            /\ (before.pc \in {"extract_profile", "update_profile"}
                  /\ after.prof_failed /\ ~before.prof_failed) =>
                   /\ after.pc = "summarize"
                   /\ Holds(MessagesOf(sessions', t), "assistant", ReplyOf(t))
            /\ (before.pc \in WriteBackSteps /\ after # before) =>
                   after.pc \in WriteBackSteps \cup {"summarize"}
            /\ (before.pc # "returned" /\ after.pc = "returned") =>
                   /\ after.response = ReplyOf(t)
                   /\ Holds(MessagesOf(sessions', t), "assistant", after.response)

C6_WriteBackFailuresCaught == [][C6_Step]_vars

\* memory ingestion and the profile update have both failed, and the turn is
\* at the summarization check with its reply in the session
C6_Witness ==
    \E t \in TaskIds :
        /\ tasks[t].pc = "summarize"
        /\ tasks[t].mem_failed /\ tasks[t].prof_failed
        /\ Holds(MessagesOf(sessions, t), "assistant", ReplyOf(t))

\* C7: a step of a turn between storing the user message and generating the
\* reply changes no session, index, memory row or profile; when the turn
\* fails there, the user message is the last message of its session; and
\* from then on the session holds the user message and no reply to it.
C7_Step ==
    \A t \in TaskIds :
        LET before == tasks[t]
            after == tasks'[t]
        IN  /\ (before.pc \in PreReplySteps /\ after # before) =>
                   /\ UNCHANGED <<sessions, session_index, memories, profiles>>
                   /\ after.pc = "failed" =>
                        LET messages == MessagesOf(sessions', t)
                        IN  /\ messages # <<>>
                            /\ messages[Len(messages)] =
                                 [role |-> "user", content |-> before.message]
            /\ (after.pc = "failed" /\ after.failed_at \in PreReplySteps) =>
                   /\ Holds(MessagesOf(sessions', t), "user", after.message)
                   /\ ~Holds(MessagesOf(sessions', t), "assistant", ReplyOf(t))

C7_FailureBeforeReply == [][C7_Step]_vars

\* the generation call of a turn has failed in a session that held messages
\* before: they are all there, followed by the user message
C7_Witness ==
    \E t \in TaskIds :
        /\ tasks[t].pc = "failed"
        /\ tasks[t].failed_at = "generate"
        /\ MessagesOf(sessions, t) =
             Append(OldMessages, [role |-> "user", content |-> tasks[t].message])
        /\ memories = <<>>

(***************************************************************************)
(* The matcher's whole result (C11).                                       *)
(***************************************************************************)
\* the score as the claim words it: the keywords that are in the lower-cased
\* query, counted, plus 2 if the name is (keyword and name lower-cased too)
ClaimedScore(skill, query) ==
    Cardinality({k \in 1..Len(skill.keywords) :
                    IsSubstr(Lower(skill.keywords[k]), Lower(query))})
    + (IF IsSubstr(Lower(skill.name), Lower(query)) THEN 2 ELSE 0)

IndexPos(skill) == CHOOSE i \in 1..Len(sk_index) : sk_index[i] = skill

\* C11: match_skills returns exactly the index skills with score > 0, each
\* once, by score descending, and skills of equal score in index order.
C11_RankedMatches ==
    sk_pc = "returned" =>
        /\ \A i \in 1..Len(sk_index) :
              ClaimedScore(sk_index[i], sk_query) > 0 <=> Returned(sk_index[i])
        /\ \A i \in 1..Len(sk_matched) :
              /\ InIndex(sk_matched[i])
              /\ ClaimedScore(sk_matched[i], sk_query) > 0
        /\ \A i, j \in 1..Len(sk_matched) :
              i < j =>
                 /\ sk_matched[i] # sk_matched[j]
                 /\ ClaimedScore(sk_matched[i], sk_query)
                      >= ClaimedScore(sk_matched[j], sk_query)
                 /\ ClaimedScore(sk_matched[i], sk_query)
                      = ClaimedScore(sk_matched[j], sk_query)
                      => IndexPos(sk_matched[i]) < IndexPos(sk_matched[j])

\* two skills of equal score have been returned, in index order
C11_Witness ==
    /\ sk_pc = "returned"
    /\ Len(sk_matched) = 2
    /\ sk_matched = sk_index
    /\ ClaimedScore(sk_matched[1], sk_query) = ClaimedScore(sk_matched[2], sk_query)

(***************************************************************************)
(* The expansion's result (C12).                                           *)
(***************************************************************************)
\* the metadata entries for skill id
EntriesFor(id) ==
    {i \in 1..Len(sk_expanded.metadata) : sk_expanded.metadata[i].id = id}

\* the first EXPAND_CAP matches of the query
TopMatches ==
    LET matched == match_skills(sk_index, sk_query)
    IN  {matched[i] : i \in 1..Min({Len(matched), EXPAND_CAP})}

\* the full content of the skill was fetched: it is a top match and its file
\* holds a text
Fetched(skill) == skill \in TopMatches /\ sk_files[skill.id] = "text"

\* what C12 says of one expansion
ExpansionAsClaimed ==
    /\ Cardinality({i \in 1..Len(sk_expanded.metadata) :
                       sk_expanded.metadata[i].loaded}) <= EXPAND_CAP
    /\ \A i \in 1..Len(sk_index) :
          /\ Cardinality(EntriesFor(sk_index[i].id)) = 1
          /\ \A e \in EntriesFor(sk_index[i].id) :
                sk_expanded.metadata[e] =
                    [id |-> sk_index[i].id, name |-> sk_index[i].name,
                     summary |-> sk_index[i].summary, loaded |-> Fetched(sk_index[i])]
    /\ Len(sk_expanded.metadata) = Len(sk_index)

\* C12: for every query, get_expanded_context loads at most the 3 top
\* matches, and its metadata holds every skill of the index exactly once,
\* loaded if its content was fetched and not loaded otherwise, with id, name
\* and summary.
C12_MetadataCoversIndex ==
    sk_pc = "expanded" => ExpansionAsClaimed


(***************************************************************************)
(* Session titles.                                                         *)
(***************************************************************************)
HasUserMessage(session) ==
    \E i \in 1..Len(session.messages) : session.messages[i].role = "user"

\* C13: a session's title is set once, from the first user message: once a
\* session holds a user message, no later add_message and no set_summary on
\* it changes its title, whatever the message contents.
C13_Step ==
    \A key \in TitleKeys :
        (sessions[key].exists /\ HasUserMessage(sessions[key]))
            => sessions'[key].title = sessions[key].title

C13_TitleSetOnce == [][C13_Step]_vars


(***************************************************************************)
(* Owner scopes.                                                           *)
(***************************************************************************)
\* the rows whose owner field is user_id
RowsOf(rows, user_id) == SelectSeq(rows, LAMBDA row : row.user_id = user_id)

\* C14: owner scopes never cross in the memory collection: an operation for
\* owner A leaves the rows of every other owner B as they were, and the rows
\* retrieved for A's context are all A's.
C14_Step ==
    /\ \A B \in OwnerIds :
           B # st_call'.user_id => RowsOf(memories', B) = RowsOf(memories, B)
    /\ st_call'.op = "retrieve_memories"
           => \A i \in 1..Len(st_call'.result) :
                  st_call'.result[i].user_id = st_call'.user_id

C14_ScopesNeverCross == [][C14_Step]_vars


(***************************************************************************)
(* Write-back of a turn.                                                   *)
(***************************************************************************)
HasPreferenceCandidate(new_memories) ==
    \E i \in 1..Len(new_memories) :
        /\ DOMAIN new_memories[i] = {"text", "type"}
        /\ new_memories[i].type = "preference"

HasPreferenceUpdate(profile_updates) == "preferences" \in DOMAIN profile_updates

\* the turn of t went through steps 9 and 10 with no exception, and its two
\* extraction calls returned a memory candidate of type preference and a
\* profile update with preferences
ExtractedPreference(task) ==
    /\ task.pc = "summarize"
    /\ ~task.mem_failed /\ ~task.prof_failed
    /\ HasPreferenceCandidate(task.new_memories)
    /\ HasPreferenceUpdate(task.profile_updates)

StoredPreference(stored_profiles, rows, task) ==
    /\ stored_profiles[task.user_id].exists
    /\ \A k \in DOMAIN task.profile_updates.preferences :
           /\ k \in DOMAIN stored_profiles[task.user_id].preferences
           /\ stored_profiles[task.user_id].preferences[k] = task.profile_updates.preferences[k]
    /\ \E i \in 1..Len(rows) :
           /\ rows[i].user_id = task.user_id
           /\ rows[i].memory_type = "preference"

\* C15: when a turn in which every step succeeded, and whose extraction calls
\* returned a preference profile update and a memory candidate of type
\* preference, returns, the owner's stored profile has the preference under
\* preferences and the collection holds a row of type preference of that owner.
C15_Step ==
    \A t \in TaskIds :
        (ExtractedPreference(tasks[t]) /\ tasks'[t].pc = "returned")
            => StoredPreference(profiles', memories', tasks[t])

C15_PreferenceWrittenBack == [][C15_Step]_vars

\* the first turn of the store, for owner u2, has extracted both and stored them
C15_Witness ==
    \E t \in TaskIds :
        /\ tasks[t].user_id = "u2"
        /\ ExtractedPreference(tasks[t])
        /\ StoredPreference(profiles, memories, tasks[t])
        /\ \A o \in TaskIds \ {t} : tasks[o].pc = "none"


(***************************************************************************)
(* Ranking of retrieved memories.                                          *)
(***************************************************************************)
\* a goes before b in the claimed order: by combined_score, then similarity,
\* then timestamp, each descending
ClaimedBefore(a, b) ==
    \/ a.combined_score > b.combined_score
    \/ /\ a.combined_score = b.combined_score
       /\ \/ a.similarity > b.similarity
          \/ a.similarity = b.similarity /\ a.timestamp >= b.timestamp

RECURSIVE InsertClaimed(_, _)
InsertClaimed(sorted, x) ==
    IF sorted = <<>> THEN <<x>>
    ELSE IF ClaimedBefore(Head(sorted), x)
         THEN <<Head(sorted)>> \o InsertClaimed(Tail(sorted), x)
         ELSE <<x>> \o sorted

RECURSIVE SortClaimed(_, _)
SortClaimed(sorted, rest) ==
    IF rest = <<>> THEN sorted
    ELSE SortClaimed(InsertClaimed(sorted, Head(rest)), Tail(rest))

\* C16: retrieve_memories returns the first top_k of the candidates ordered by
\* combined_score descending, ties broken by similarity descending and then
\* by timestamp descending.
C16_RankedRetrieval ==
    rt_pc = "returned" =>
        LET ordered == SortClaimed(<<>>, ScoredHits(rt_hits))
        IN  rt_result = SubSeq(ordered, 1, Min({rt_top_k, Len(ordered)}))


(***************************************************************************)
(* Pruning statistics.  The spec's original_count, final_count and         *)
(* dropped_count are the keys original_messages, final_messages and        *)
(* dropped_messages of the stats dict; its strategy keep_recent is the     *)
(* value "keep_recent_with_summary".                                       *)
(***************************************************************************)
PrStats == pr_result.stats

PrFits == SumTokens(pr_messages) <= PrBudget

\* final_count and final_tokens describe the returned messages
CountsAgree ==
    /\ PrStats.original_messages = Len(pr_messages)
    /\ PrStats.final_messages = Len(PrKept)
    /\ PrStats.final_tokens = SumTokens(PrKept)

\* C17 as stated: the statistics of every call agree with its result:
\* final_count and final_tokens describe the returned messages, dropped_count
\* is original_count minus final_count, and strategy is none when the whole
\* sequence fits (the input is returned unmodified) and keep_recent otherwise.
C17_Original ==
    pr_pc = "returned" =>
        /\ CountsAgree
        /\ "dropped_messages" \in DOMAIN PrStats
        /\ PrStats.dropped_messages = PrStats.original_messages - PrStats.final_messages
        /\ IF PrFits
           THEN PrStats.strategy = "none" /\ PrKept = pr_messages
           ELSE PrStats.strategy = "keep_recent_with_summary"

\* C17 as amended: final_count and final_tokens describe the returned
\* messages in every call; when the whole sequence fits, strategy is none,
\* the input is returned unmodified and the statistics hold no dropped count;
\* otherwise strategy is keep_recent and dropped_count is original_count
\* minus final_count.
C17_StatsAgree ==
    pr_pc = "returned" =>
        /\ CountsAgree
        /\ IF PrFits
           THEN /\ PrStats.strategy = "none"
                /\ ~PrStats.pruned
                /\ PrKept = pr_messages
                /\ "dropped_messages" \notin DOMAIN PrStats
           ELSE /\ PrStats.strategy = "keep_recent_with_summary"
                /\ PrStats.pruned
                /\ PrStats.dropped_messages
                       = PrStats.original_messages - PrStats.final_messages

\* a pruning that kept some messages and dropped others
C17_Witness ==
    /\ pr_pc = "returned"
    /\ ~PrFits
    /\ PrStats.final_messages > 0
    /\ PrStats.dropped_messages > 0
    /\ PrStats.final_tokens > 0


(***************************************************************************)
(* Rolling summaries.                                                      *)
(***************************************************************************)
KeyOf(task) == <<task.user_id, task.session_id>>

\* the turn of t returns at this step
TurnReturns(t) == tasks[t].pc = "summarize" /\ tasks'[t].pc = "returned"

\* the step asks for a summary of the n messages of the session of `task`,
\* passing `previous`, and stores the text returned
Regenerates(task, n, previous) ==
    /\ st_call'.op = "rolling_summarize"
    /\ st_call'.user_id = task.user_id /\ st_call'.session_id = task.session_id
    /\ st_call'.result.messages = n
    /\ st_call'.result.existing_summary = (IF previous = None THEN "(none)" ELSE previous)
    /\ sessions'[KeyOf(task)].summary = st_call'.result.summary
    /\ sessions'[KeyOf(task)].summary # previous

\* C18: a turn that returns stores a summary exactly when the stored history
\* after its reply has at least 6 messages: it then asks for a summary of the
\* whole history, passing the previous summary, and stores the text; with 5
\* or fewer messages no summary is stored, and no other step stores one.
C18_Step ==
    /\ \A t \in TaskIds :
           TurnReturns(t) =>
               LET task == tasks[t]
                   n == Len(sessions'[KeyOf(task)].messages)
               IN  IF n >= SUMMARY_TRIGGER_MESSAGES
                   THEN Regenerates(task, n, sessions[KeyOf(task)].summary)
                   ELSE sessions'[KeyOf(task)].summary = None
    /\ \A key \in DOMAIN sessions :
           (sessions[key].exists /\ sessions'[key].summary # sessions[key].summary)
               => \E t \in TaskIds : TurnReturns(t) /\ KeyOf(tasks[t]) = key
    /\ \A key \in DOMAIN sessions :
           (sessions'[key].exists /\ Len(sessions'[key].messages) < SUMMARY_TRIGGER_MESSAGES)
               => sessions'[key].summary = None

C18_SummaryAtTrigger == [][C18_Step]_vars

\* a session that was summarized at 6 messages has been summarized again by
\* the next turn, which was given the first summary
C18_Witness ==
    /\ st_call.op = "rolling_summarize"
    /\ st_call.result.messages > SUMMARY_TRIGGER_MESSAGES
    /\ st_call.result.existing_summary # "(none)"
    /\ sessions[<<st_call.user_id, st_call.session_id>>].summary = st_call.result.summary


(***************************************************************************)
(* Blocks of the assembled context.                                        *)
(***************************************************************************)
\* the stored profile of user_id holds something: a name, a preference, a
\* constraint or a fact
ProfileHasData(user_id) ==
    /\ profiles[user_id].exists
    /\ \/ profiles[user_id].name # None
       \/ DOMAIN profiles[user_id].preferences # {}
       \/ profiles[user_id].constraints # <<>>
       \/ profiles[user_id].facts # <<>>

\* another session of the owner holds a non-empty summary
HasPriorSummary(user_id, session_id) ==
    \E key \in DOMAIN sessions :
        /\ key[1] = user_id /\ key[2] # session_id
        /\ sessions[key].exists
        /\ sessions[key].summary \notin {None, ""}

HasMemories(user_id) == \E i \in 1..Len(memories) : memories[i].user_id = user_id

\* the content of some matched skill was loaded
SkillContentLoaded(message) ==
    LET metadata == get_expanded_context(sk_index, sk_files, message).metadata
    IN  \E i \in 1..Len(metadata) : metadata[i].loaded

HasSummary(user_id, session_id) ==
    sessions[<<user_id, session_id>>].summary \notin {None, ""}

\* the blocks in the fixed order, each present exactly when it has content
BlocksWithContent(user_id, session_id, message) ==
    (IF ProfileHasData(user_id) THEN <<"user_profile">> ELSE <<>>)
    \o (IF HasPriorSummary(user_id, session_id) THEN <<"episodic_memory">> ELSE <<>>)
    \o (IF HasMemories(user_id) THEN <<"retrieved_memories">> ELSE <<>>)
    \o (IF SkillContentLoaded(message) THEN <<"expanded_skills">> ELSE <<>>)
    \o (IF HasSummary(user_id, session_id) THEN <<"conversation_summary">> ELSE <<>>)

\* C19: the assembled context lists its blocks in the order profile,
\* prior-session, retrieved-memories, expanded-skills, rolling summary, and a
\* block is present exactly when it has content: omitted with nothing to
\* show, included with data (a profile that has only a name included).
C19_BlocksWhenContent ==
    st_call.op = "context_parts" =>
        st_call.result = BlocksWithContent(st_call.user_id, st_call.session_id, sk_query)


(***************************************************************************)
(* Prior-session context.                                                  *)
(***************************************************************************)
\* the sessions of user_id other than session_id that hold a non-empty summary
SummarizedOthers(user_id, session_id) ==
    {key \in DOMAIN sessions :
        /\ key[1] = user_id /\ key[2] # session_id
        /\ sessions[key].exists
        /\ sessions[key].summary \notin {None, ""}}

\* the one created last among `keys`
MostRecent(keys) ==
    CHOOSE key \in keys :
        \A other \in keys : sessions[other].created_at <= sessions[key].created_at

\* C20: the prior-session summary of a turn is the summary of the owner's most
\* recently created session, other than the current one, that has a non-empty
\* summary; it is never the current session's own summary, and there is none
\* when no other session of the owner has a non-empty summary.
C20_PriorSessionSummary ==
    st_call.op = "get_previous_session_summary" =>
        LET others == SummarizedOthers(st_call.user_id, st_call.session_id)
            own == sessions[<<st_call.user_id, st_call.session_id>>]
        IN  /\ IF others = {} THEN st_call.result = None
               ELSE st_call.result = sessions[MostRecent(others)].summary
            /\ (own.exists /\ own.summary \notin {None, ""})
                   => st_call.result # own.summary

\* the summary of an older session was returned: the current session has a
\* summary of its own, and a session created after the one returned has none
\* or an empty one
C20_Witness ==
    /\ st_call.op = "get_previous_session_summary"
    /\ LET others == SummarizedOthers(st_call.user_id, st_call.session_id)
           own == sessions[<<st_call.user_id, st_call.session_id>>]
       IN  /\ others # {}
           /\ st_call.result = sessions[MostRecent(others)].summary
           /\ own.exists /\ own.summary \notin {None, ""}
           /\ \E key \in DOMAIN sessions :
                  /\ key[1] = st_call.user_id /\ key[2] # st_call.session_id
                  /\ sessions[key].exists
                  /\ sessions[key].summary \in {None, ""}
                  /\ sessions[key].created_at > sessions[MostRecent(others)].created_at


(***************************************************************************)
(* What the merge keeps.                                                   *)
(***************************************************************************)
\* item, lower-cased and trimmed, is a substring of some entry of entries,
\* lower-cased and trimmed
CoveredBy(item, entries) ==
    \E k \in 1..Len(entries) : IsSubstr(Norm(item), Norm(entries[k]))

IsEntryOf(item, entries) == \E k \in 1..Len(entries) : entries[k] = item

\* C21: the dedup merge loses no information: every entry of existing and
\* every entry of incoming is, lower-cased and trimmed, a substring of some
\* entry of the result, and the result is never shorter than existing.
C21_NoInformationLost ==
    m_pc \in {"once", "twice"} =>
        /\ \A i \in 1..Len(m_existing) : CoveredBy(m_existing[i], m_once)
        /\ \A j \in 1..Len(m_incoming) : CoveredBy(m_incoming[j], m_once)
        /\ Len(m_once) >= Len(m_existing)

\* a merge in which an entry of existing was replaced by a longer incoming
\* item and another incoming item was dropped: neither is in the result
C21_Witness ==
    /\ m_pc = "once"
    /\ \E i \in 1..Len(m_existing) : ~IsEntryOf(m_existing[i], m_once)
    /\ \E j \in 1..Len(m_incoming) : ~IsEntryOf(m_incoming[j], m_once)
    /\ Len(m_once) = Len(m_existing)


(***************************************************************************)
(* The session index against the session files.                            *)
(***************************************************************************)
\* the positions of the index of user_id that list session_id
EntriesOf(user_id, session_id) ==
    {i \in 1..Len(session_index[user_id]) :
        session_index[user_id][i].session_id = session_id}

\* the summary flag of an index entry: true when the entry says so
SummaryFlag(entry) == "summary" \in DOMAIN entry /\ entry.summary

ListedOnce(key) == Cardinality(EntriesOf(key[1], key[2])) = 1

CountAgrees(key) ==
    \A i \in EntriesOf(key[1], key[2]) :
        session_index[key[1]][i].message_count = Len(sessions[key].messages)

FlagAgrees(key) ==
    \A i \in EntriesOf(key[1], key[2]) :
        SummaryFlag(session_index[key[1]][i]) <=> (sessions[key].summary # None)

\* C22: after any sequence of create_session, add_message and set_summary
\* calls, every session has exactly one entry in its owner's index, and the
\* entry agrees with the session file: its message_count is the number of
\* stored messages and its summary flag is true exactly when the session has
\* a summary.
C22_IndexAgrees ==
    \A key \in DOMAIN sessions :
        sessions[key].exists =>
            ListedOnce(key) /\ CountAgrees(key) /\ FlagAgrees(key)

\* ---- C23 ----
\* the list the claim allows under one key after update_profile(u, updates):
\* the dedup merge of the stored list with a list given under that key, and
\* the stored list as it was in every other case
ClaimedList(old, updates, key) ==
    IF WellTyped(updates) /\ key \in DOMAIN updates /\ IsList(updates[key])
    THEN _dedup_list(old, updates[key])
    ELSE old

\* the stored profile of u still names u as its owner
OwnerKept(u) == profiles'[u].exists => profiles'[u].user_id = u

\* constraints and facts of u are changed by the dedup merge only
ListsKept(u) ==
    LET old == get_profile(u)
        updates == p_call'.updates
    IN  profiles'[u].exists =>
            /\ profiles'[u].constraints = ClaimedList(old.constraints, updates, "constraints")
            /\ profiles'[u].facts = ClaimedList(old.facts, updates, "facts")

C23_Step == OwnerKept(p_call'.user_id) /\ ListsKept(p_call'.user_id)

\* C23: after any sequence of update_profile calls for owner u with arbitrary
\* payloads (any keys, any value types), the stored profile of u still has
\* user_id equal to u, and its constraints and facts are lists of strings
\* changed only by the dedup merge.
C23_ProfileShapeKept == [][C23_Step]_vars

=============================================================================
